---- MODULE Spec2Model ----
(***************************************************************************)
(* Model of the channel-bus / master-slave node package.                   *)
(*                                                                         *)
(*   global_channels.py          lock-protected channel map                *)
(*   Master_Slave.py             ProjectMasterController, SlaveDistributor *)
(*   Project_Master_Controller.py  the variant returning merged_data       *)
(*   channel.py                  SenderNode / ReceiverNode on a module map *)
(*   Sender_Node.py, Receiver_Node.py  file-cache transport with checksum  *)
(*                                                                         *)
(* Python values are represented as follows.                               *)
(*   dict      a sequence of <<key, value>> pairs with distinct keys, in   *)
(*             insertion order (Python dicts keep insertion order)         *)
(*   Optional  <<>> for None, <<v>> for the value v                        *)
(*   str       a TLA+ string; a channel name of the file transport is a    *)
(*             sequence of one-character strings, since the code edits it  *)
(*             character by character                                     *)
(***************************************************************************)
EXTENDS Integers, Sequences, FiniteSets, TLC

VARIABLES
    \* global_channels.py
    GLOBAL_CHANNEL_DATA,    \* dict: channel name -> record
    GLOBAL_CHANNEL_LOCK,    \* the thread holding the lock, or NoThread
    thr,                    \* thread -> its call in progress and last result
    calls,                  \* number of calls started (bounds the run)
    gh_last,                \* channel -> Optional argument of the latest set call started
    gh_live,                \* channel -> writes not known to be overwritten
    gh_returned,            \* channel -> writes whose set call has returned
    gh_val,                 \* write id -> Optional value written (0: never set)
    \* the clock and the archive on disk (Master_Slave.py, Project_Master_Controller.py)
    now,                    \* datetime.now(), in seconds
    files,                  \* dict: absolute path -> content of the file
    dirs,                   \* the directories made so far
    runs,                   \* Master Controller invocations completed
    \* Master_Slave.py
    INTERNAL_PROJECT_BUS,   \* dict: channel name -> total_package
    slave_out,              \* the last SlaveDistributor.distribute call and its result
    gh_pub,                 \* channel -> Optional kwargs of the latest publish on it
    master_out,             \* the last execute_management call: the step that failed and
                            \* the exception that reached the caller
    \* Project_Master_Controller.py and channel.py
    merged_data,            \* Optional: the merged_data output wired into SenderNode
    INTERNAL_STORAGE,       \* dict: channel name -> MASTER_DATA
    recv_out,               \* the last ReceiverNode.execute_reception call and its result
    \* Sender_Node.py and Receiver_Node.py
    node_dir,               \* the category folders found beside the node files
    cache,                  \* file of .cache/channels -> Optional envelope it holds
    node_out,               \* the last execute call of either node and its result
    sent,                   \* Sender and Receiver executions so far
    gh_sent,                \* cache file -> Optional payload of the send that wrote it
    gh_names,               \* the channel names successful sends were given
    gh_hist,                \* channel name -> the records sent under it, in order, and
                            \* whether something else wrote its file
    saving,                 \* Optional: the _save_to_cache call in progress
    loading,                \* Optional: the _load_from_cache call in progress
    gh_tx,                  \* the channel names execute_transmission was given
    \* 01_Background/01_Background_Setting_Node.py
    setting,                \* the folder 01_Background/setting: order_list.txt and the
                            \* folder of each parameter
    schema,                 \* Optional: the last INPUT_TYPES call, what it read and returned
    edits,                  \* changes of the folder and INPUT_TYPES calls so far
    ops                     \* node executions so far, counted in Spec only

busVars == <<GLOBAL_CHANNEL_DATA, GLOBAL_CHANNEL_LOCK, thr, calls,
             gh_last, gh_live, gh_returned, gh_val>>

diskVars == <<now, files, dirs, runs>>
msVars == <<INTERNAL_PROJECT_BUS, slave_out, gh_pub, master_out>>
chanVars == <<merged_data, INTERNAL_STORAGE, recv_out, gh_tx>>

fileVars == <<node_dir, cache, node_out, sent, gh_sent, gh_names, gh_hist, saving, loading>>

settingVars == <<setting, schema, edits>>

vars == <<busVars, diskVars, msVars, chanVars, fileVars, settingVars, ops>>

(***************************************************************************)
(* Bounds                                                                  *)
(***************************************************************************)
MaxCalls == 3
MaxTime == 1
MaxRuns == 2
MaxOps == 2
MaxSends == 2
MaxEdits == 2

(***************************************************************************)
(* Python dict and Optional                                                *)
(***************************************************************************)
None == <<>>
Some(v) == <<v>>

DictKeys(d) == [i \in DOMAIN d |-> d[i][1]]
DictHas(d, k) == \E i \in DOMAIN d : d[i][1] = k
DictIndex(d, k) == CHOOSE i \in DOMAIN d : d[i][1] = k
\* d.get(k, default)
DictGet(d, k, default) == IF DictHas(d, k) THEN d[DictIndex(d, k)][2] ELSE default
\* d.get(k) with the result as an Optional
DictGetOpt(d, k) == IF DictHas(d, k) THEN Some(d[DictIndex(d, k)][2]) ELSE None
\* d[k] = v : an existing key keeps its position, a new key goes last
DictSet(d, k, v) ==
    IF DictHas(d, k)
    THEN [d EXCEPT ![DictIndex(d, k)] = <<k, v>>]
    ELSE Append(d, <<k, v>>)
\* `not x` for an Optional[dict]: None and the empty dict are both falsy
Falsy(opt) == opt = None \/ opt[1] = <<>>

(***************************************************************************)
(* Inputs of the in-memory buses                                           *)
(***************************************************************************)
Channels == {"MASTER_CH", "CH_B"}
DirectRecords == {<<>>, << <<"settings", << <<"02_Equipment", << <<"lora", "reij">> >> >> >> >> >>}
BusRecords == {
    <<>>,
    << <<"settings", << <<"01_Background", << <<"prompt", "sunset">> >> >> >> >> >>,
    << <<"settings", << <<"06_Audio", << <<"bpm", "128">> >> >> >> >> >> }

(***************************************************************************)
(* global_channels.py                                                      *)
(***************************************************************************)
Threads == {"t1", "t2"}
NoThread == "none"

\* a store that would keep the first value of a channel
set_channel_data_first_wins(store, channel_name, data) ==
    IF DictHas(store, channel_name) THEN store ELSE Append(store, <<channel_name, data>>)
\* the statement under the lock in set_channel_data
set_channel_data(store, channel_name, data) == DictSet(store, channel_name, data)

\* a lookup that would ignore the channel name
get_channel_data_any(store, channel_name) ==
    IF store = <<>> THEN None ELSE Some(store[1][2])
\* the expression under the lock in get_channel_data
get_channel_data(store, channel_name) == DictGetOpt(store, channel_name)

Idle == [pc |-> "returned", op |-> "none", channel_name |-> "", data |-> <<>>,
         ret |-> None, id |-> 0, cand |-> {}]

InFlightSets(c) ==
    {t \in Threads : thr[t].pc # "returned" /\ thr[t].op = "set" /\ thr[t].channel_name = c}

InitBus ==
    /\ GLOBAL_CHANNEL_DATA = <<>>
    /\ GLOBAL_CHANNEL_LOCK = NoThread
    /\ thr = [t \in Threads |-> Idle]
    /\ calls = 0
    /\ gh_last = [c \in Channels |-> None]
    /\ gh_live = [c \in Channels |-> {0}]
    /\ gh_returned = [c \in Channels |-> {0}]
    /\ gh_val = <<>>

\* a set call that starts while a get is in progress may be the one the get observes
NoteConcurrentSet(t, c) ==
    [u \in Threads |->
        IF u # t /\ thr[u].pc # "returned" /\ thr[u].op = "get" /\ thr[u].channel_name = c
        THEN [thr[u] EXCEPT !.cand = @ \cup {calls + 1}]
        ELSE thr[u]]

\* a thread enters set_channel_data(channel_name, data)
CallSet(t, c, d) ==
    /\ thr[t].pc = "returned"
    /\ calls < MaxCalls
    /\ calls' = calls + 1
    /\ thr' = [NoteConcurrentSet(t, c) EXCEPT ![t] =
                    [pc |-> "called", op |-> "set", channel_name |-> c, data |-> d,
                     ret |-> None, id |-> calls + 1, cand |-> gh_returned[c]]]
    /\ gh_last' = [gh_last EXCEPT ![c] = Some(d)]
    /\ gh_val' = Append(gh_val, Some(d))
    /\ UNCHANGED <<GLOBAL_CHANNEL_DATA, GLOBAL_CHANNEL_LOCK, gh_live, gh_returned>>
    /\ UNCHANGED <<diskVars, msVars, chanVars, fileVars>>

\* a thread enters get_channel_data(channel_name)
CallGet(t, c) ==
    /\ thr[t].pc = "returned"
    /\ calls < MaxCalls
    /\ calls' = calls + 1
    /\ thr' = [thr EXCEPT ![t] = [pc |-> "called", op |-> "get", channel_name |-> c,
                                  data |-> <<>>, ret |-> None, id |-> 0,
                                  cand |-> gh_live[c] \cup
                                           {thr[u].id : u \in InFlightSets(c)}]]
    /\ gh_val' = Append(gh_val, None)
    /\ UNCHANGED <<GLOBAL_CHANNEL_DATA, GLOBAL_CHANNEL_LOCK, gh_last, gh_live, gh_returned>>
    /\ UNCHANGED <<diskVars, msVars, chanVars, fileVars>>

\* `with GLOBAL_CHANNEL_LOCK:` is entered
Acquire(t) ==
    /\ thr[t].pc = "called"
    /\ GLOBAL_CHANNEL_LOCK = NoThread
    /\ GLOBAL_CHANNEL_LOCK' = t
    /\ thr' = [thr EXCEPT ![t].pc = "locked"]
    /\ UNCHANGED <<GLOBAL_CHANNEL_DATA, calls, gh_last, gh_live, gh_returned, gh_val>>
    /\ UNCHANGED <<diskVars, msVars, chanVars, fileVars>>

\* the statement inside the `with` block
Body(t) ==
    /\ thr[t].pc = "locked"
    /\ GLOBAL_CHANNEL_LOCK = t
    /\ IF thr[t].op = "set"
       THEN /\ GLOBAL_CHANNEL_DATA' =
                   set_channel_data(GLOBAL_CHANNEL_DATA, thr[t].channel_name, thr[t].data)
            /\ thr' = [thr EXCEPT ![t].pc = "body_done"]
       ELSE /\ thr' = [thr EXCEPT ![t].pc = "body_done",
                                  ![t].ret = get_channel_data(GLOBAL_CHANNEL_DATA,
                                                              thr[t].channel_name)]
            /\ UNCHANGED GLOBAL_CHANNEL_DATA
    /\ UNCHANGED <<GLOBAL_CHANNEL_LOCK, calls, gh_last, gh_live, gh_returned, gh_val>>
    /\ UNCHANGED <<diskVars, msVars, chanVars, fileVars>>

\* the `with` block is left and the call returns
Release(t) ==
    /\ thr[t].pc = "body_done"
    /\ GLOBAL_CHANNEL_LOCK = t
    /\ GLOBAL_CHANNEL_LOCK' = NoThread
    /\ thr' = [thr EXCEPT ![t].pc = "returned"]
    /\ LET c == thr[t].channel_name
       IN IF thr[t].op = "set"
          THEN /\ gh_live' = [gh_live EXCEPT ![c] = (@ \ thr[t].cand) \cup {thr[t].id}]
               /\ gh_returned' = [gh_returned EXCEPT ![c] = @ \cup {thr[t].id}]
          ELSE UNCHANGED <<gh_live, gh_returned>>
    /\ UNCHANGED <<GLOBAL_CHANNEL_DATA, calls, gh_last, gh_val>>
    /\ UNCHANGED <<diskVars, msVars, chanVars, fileVars>>

(***************************************************************************)
(* The clock, paths and the archive on disk                                *)
(***************************************************************************)
CATEGORIES == <<"01_Background", "02_Equipment", "03_Character",
                "04_Structure", "05_SpecialEffects", "06_Audio">>

\* now.strftime("%Y%m%d_%H%M%S"): the clock has a resolution of one second
strftime(t) == "20241219_00000" \o ToString(t)
\* os.path.abspath of a relative path, os.path.join of two relative components
abspath(path) == "/comfy/" \o path
join(a, b) == a \o "/" \o b
\* a file is named by its directory and its base name
FilePath(dir, name) == <<dir, name>>
absfile(path) == FilePath(abspath(path[1]), path[2])
exists(path) == DictHas(files, absfile(path))

\* dict.update
RECURSIVE DictUpdate(_, _)
DictUpdate(d, e) ==
    IF e = <<>> THEN d ELSE DictUpdate(DictSet(d, Head(e)[1], Head(e)[2]), Tail(e))

\* {k: v for k, v in kwargs.items() if v is not None}
RECURSIVE NotNoneItems(_)
NotNoneItems(kwargs) ==
    IF kwargs = <<>> THEN <<>>
    ELSE IF Head(kwargs)[2] = None THEN NotNoneItems(Tail(kwargs))
         ELSE << <<Head(kwargs)[1], Head(kwargs)[2][1]>> >> \o NotNoneItems(Tail(kwargs))

\* a package that would keep an entry for a category passed as None
total_package_with_absent(project_name, asset_save_root, timestamp, kwargs) ==
    << <<"project_info", << <<"name", project_name>>,
                            <<"root", join(abspath(asset_save_root), project_name)>>,
                            <<"timestamp", timestamp>> >> >>,
       <<"settings", [i \in DOMAIN kwargs |->
                        <<kwargs[i][1],
                          IF kwargs[i][2] = None THEN <<>> ELSE kwargs[i][2][1]>>]>> >>
\* total_package of execute_management
total_package(project_name, asset_save_root, timestamp, kwargs) ==
    << <<"project_info", << <<"name", project_name>>,
                            <<"root", join(abspath(asset_save_root), project_name)>>,
                            <<"timestamp", timestamp>> >> >>,
       <<"settings", NotNoneItems(kwargs)>> >>

file_name(timestamp, project_name) == timestamp \o "_" \o project_name \o ".json"
list_line(timestamp, project_name) ==
    "[" \o timestamp \o "] PROJ: " \o project_name \o " | FILE: "
        \o file_name(timestamp, project_name) \o "\n"
list_file(archive_root) == FilePath(abspath(archive_root), "archiving_list.txt")
arch_dir(archive_root) == join(abspath(archive_root), "archive_dictionary")

Projects == {"DEMO", "NOVELPIA_PROJ"}

\* what a write that raised leaves of the index line: nothing, or the line cut
\* before its newline
cut_line(timestamp, project_name) == "[" \o timestamp \o "] PROJ: " \o project_name
\* the texts without a final newline that failed appends can leave at the end of
\* archiving_list.txt
CutTexts ==
    LET pieces == {cut_line(strftime(t), p) : t \in 0..MaxTime, p \in Projects}
        RECURSIVE UpTo(_)
        UpTo(n) == IF n = 0 THEN {}
                   ELSE pieces \cup {a \o b : a \in UpTo(n - 1), b \in pieces}
    IN UpTo(MaxRuns)
\* the lines of a file as readlines() gives them, after text is written at its end
WriteAtEnd(lines, text) ==
    IF lines # <<>> /\ lines[Len(lines)] \in CutTexts
    THEN [lines EXCEPT ![Len(lines)] = @ \o text]
    ELSE Append(lines, text)
\* open(path, "a").write(line): the file is created when missing, never truncated
AppendLine(fs, path, line) == DictSet(fs, path, WriteAtEnd(DictGet(fs, path, <<>>), line))
\* open(path, "a") alone: the file is created when missing
OpenAppend(fs, path) == DictSet(fs, path, DictGet(fs, path, <<>>))
\* open(path, "w") with json.dump: the file is created or truncated
WriteJson(fs, path, package) == DictSet(fs, path, package)
\* a JSON file whose json.dump raised: it holds a proper prefix of the text,
\* possibly nothing, and json.load raises on it
CutJson == << <<"<cut>", <<>>>> >>

\* steps 2 and 3 of execute_management: the folders, the index line, the archive file
Archive(project_name, asset_save_root, archive_root, package) ==
    LET timestamp == strftime(now)
        base == join(abspath(asset_save_root), project_name)
    IN /\ dirs' = dirs \cup {join(base, CATEGORIES[i]) : i \in DOMAIN CATEGORIES}
                       \cup {arch_dir(archive_root)}
       /\ files' = WriteJson(AppendLine(files, list_file(archive_root),
                                        list_line(timestamp, project_name)),
                             FilePath(arch_dir(archive_root),
                                      file_name(timestamp, project_name)),
                             package)
       /\ runs' = runs + 1
       /\ UNCHANGED now

\* the files of archive_dictionary/ and the lines of archiving_list.txt
ArchiveFiles(archive_root) ==
    {files[i][1] : i \in {k \in DOMAIN files : files[k][1][1] = arch_dir(archive_root)}}
ArchiveLines(archive_root) == DictGet(files, list_file(archive_root), <<>>)

InitDisk ==
    /\ now = 0
    /\ files = <<>>
    /\ dirs = {}
    /\ runs = 0

\* a second passes
Tick ==
    /\ now < MaxTime
    /\ now' = now + 1
    /\ UNCHANGED <<files, dirs, runs>>
    /\ UNCHANGED <<busVars, msVars, chanVars, fileVars>>

(***************************************************************************)
(* Inputs of the Master Controller                                         *)
(***************************************************************************)
AssetRoots == {"output/Asset_Library"}
ArchiveRoots == {"output/Archive_Data"}
ARCHIVE_ROOT == "output/Archive_Data"
Sunset == << <<"prompt", "sunset">> >>
Epic == << <<"prompt", "Epic cinematic">>, <<"bpm", "128">> >>
\* the optional category inputs, in the order the host passes them; an input
\* that is not connected is either left out or passed as None
KwargsSet == {
    <<>>,
    << <<"01_Background", Some(Sunset)>> >>,
    << <<"06_Audio", Some(Epic)>>, <<"01_Background", Some(Sunset)>> >>,
    << <<"03_Character", None>>, <<"02_Equipment", Some(<<>>)>> >> }

(***************************************************************************)
(* Master_Slave.py                                                         *)
(***************************************************************************)
NoCall == [called |-> FALSE, CHANNEL |-> "", reference_mode |-> "", file_there |-> FALSE,
           archive_file_path |-> FilePath("", ""),
           exc |-> "", data |-> None, out |-> <<>>]

NoManagement == [called |-> FALSE, CHANNEL |-> "", failed |-> "", exc |-> ""]

InitMS ==
    /\ master_out = NoManagement
    /\ INTERNAL_PROJECT_BUS = <<>>
    /\ slave_out = NoCall
    /\ gh_pub = [c \in Channels |-> None]

\* ProjectMasterController.execute_management of Master_Slave.py
MasterExecute(project_name, asset_save_root, archive_root, CHANNEL, kwargs) ==
    LET package == total_package(project_name, asset_save_root, strftime(now), kwargs)
    IN /\ runs < MaxRuns
       /\ Archive(project_name, asset_save_root, archive_root, package)
       /\ INTERNAL_PROJECT_BUS' = DictSet(INTERNAL_PROJECT_BUS, CHANNEL, package)
       /\ gh_pub' = [gh_pub EXCEPT ![CHANNEL] = Some(kwargs)]
       /\ master_out' = [called |-> TRUE, CHANNEL |-> CHANNEL, failed |-> "", exc |-> ""]
       /\ UNCHANGED slave_out
       /\ UNCHANGED <<busVars, chanVars, fileVars>>

\* the file system steps of execute_management, in the order of the code: the
\* loop of six os.makedirs, os.makedirs(arch_dir), open(list_file, "a"), its write
\* and close, open(archive file, "w"), its json.dump and close
FileSteps == <<"makedirs_assets", "makedirs_archive", "open_append", "append",
               "open_write", "write">>
StepIndex(step) == CHOOSE i \in DOMAIN FileSteps : FileSteps[i] = step
\* the category inputs of the calls when failures are looked at: what a failing
\* call leaves does not depend on them
FailingKwargs == {<< <<"01_Background", Some(Sunset)>> >>}
\* where a call can raise: <<step, n>>; for makedirs_assets n is the category whose
\* os.makedirs raises, for append n = 1 when a cut line reached the file
FailPoints ==
    {<<"makedirs_assets", i>> : i \in DOMAIN CATEGORIES}
        \cup {<<FileSteps[i], 0>> : i \in 2..Len(FileSteps)}
        \cup {<<"append", 1>>}

\* the bus after a call one of whose file system steps raised, if the publish
\* came before the archive steps
bus_published_first(bus, CHANNEL, package) == DictSet(bus, CHANNEL, package)
\* the bus after a call one of whose file system steps raised: line 78 is not reached
bus_after_failure(bus, CHANNEL, package) == bus

\* execute_management when the given file system step raises OSError: the steps
\* before it are done, the failing step leaves what it did before it raised, and
\* nothing catches the exception
MasterFail(project_name, asset_save_root, archive_root, CHANNEL, kwargs, failing) ==
    LET timestamp == strftime(now)
        package == total_package(project_name, asset_save_root, timestamp, kwargs)
        base == join(abspath(asset_save_root), project_name)
        n == StepIndex(failing[1])
        made == IF n > 1 THEN DOMAIN CATEGORIES ELSE 1..(failing[2] - 1)
        listed == IF n > 4 THEN AppendLine(files, list_file(archive_root),
                                           list_line(timestamp, project_name))
                  ELSE IF n = 4 /\ failing[2] = 1
                  THEN AppendLine(files, list_file(archive_root),
                                  cut_line(timestamp, project_name))
                  ELSE IF n = 4 THEN OpenAppend(files, list_file(archive_root))
                  ELSE files
    IN /\ runs < MaxRuns
       /\ runs' = runs + 1
       /\ dirs' = dirs \cup {join(base, CATEGORIES[i]) : i \in made}
                       \cup (IF n > 2 THEN {arch_dir(archive_root)} ELSE {})
       /\ files' = IF n = 6
                   THEN WriteJson(listed, FilePath(arch_dir(archive_root),
                                                   file_name(timestamp, project_name)),
                                  CutJson)
                   ELSE listed
       /\ INTERNAL_PROJECT_BUS' = bus_after_failure(INTERNAL_PROJECT_BUS, CHANNEL, package)
       /\ master_out' = [called |-> TRUE, CHANNEL |-> CHANNEL, failed |-> failing[1],
                         exc |-> "OSError"]
       /\ UNCHANGED <<now, slave_out, gh_pub>>
       /\ UNCHANGED <<busVars, chanVars, fileVars>>

\* for i in range(6): only the copy and the key are inside the loop
RECURSIVE DistributeLoop(_, _, _)
DistributeLoop(i, st, project_info) ==
    IF i > 6 THEN st
    ELSE DistributeLoop(i + 1, [integrated_dict |-> project_info, key |-> CATEGORIES[i]],
                        project_info)

\* the statements after the loop, which run once
AfterLoop(st, settings) ==
    LET rooted == IF DictHas(st.integrated_dict, "root")
                  THEN DictSet(st.integrated_dict, "root",
                               join(DictGet(st.integrated_dict, "root", ""), st.key))
                  ELSE st.integrated_dict
        category_data == DictGet(settings, st.key, <<>>)
        merged == IF category_data # <<>> THEN DictUpdate(rooted, category_data) ELSE rooted
    IN <<merged>>

\* json.load under try/except: the index file and a cut archive file are not
\* JSON, their load raises and data stays None
json_load(path) ==
    IF path[2] = "archiving_list.txt" THEN None
    ELSE IF DictGet(files, absfile(path), <<>>) = CutJson THEN None
    ELSE Some(DictGet(files, absfile(path), <<>>))

\* the data distribute works on: the archive file if it is there, else the bus
SlaveData(CHANNEL, reference_mode, archive_file_path) ==
    LET loaded == IF reference_mode = "Archive" /\ exists(archive_file_path)
                  THEN json_load(archive_file_path)
                  ELSE None
    IN IF loaded = None THEN DictGetOpt(INTERNAL_PROJECT_BUS, CHANNEL) ELSE loaded

\* the result of SlaveDistributor.distribute: the tuple returned or the exception raised
distribute(CHANNEL, reference_mode, archive_file_path) ==
    LET data == SlaveData(CHANNEL, reference_mode, archive_file_path)
        call == [NoCall EXCEPT !.called = TRUE, !.CHANNEL = CHANNEL,
                               !.reference_mode = reference_mode,
                               !.file_there = exists(archive_file_path),
                               !.archive_file_path = archive_file_path,
                               !.data = data]
    IN IF Falsy(data)
       THEN [call EXCEPT !.out = <<<<>>, <<>>, <<>>, <<>>, <<>>, <<>>>>]
       ELSE LET project_info == DictGet(data[1], "project_info", <<>>)
                settings == DictGet(data[1], "settings", <<>>)
                st == DistributeLoop(1, [integrated_dict |-> <<>>, key |-> ""], project_info)
                output_list == AfterLoop(st, settings)
            IN IF Len(output_list) < 6
               THEN [call EXCEPT !.exc = "IndexError"]
               ELSE [call EXCEPT !.out = SubSeq(output_list, 1, 6)]

ArchivePaths ==
    {FilePath(join(ARCHIVE_ROOT, "archive_dictionary"), file_name(strftime(0), "DEMO")),
     FilePath(join(ARCHIVE_ROOT, "archive_dictionary"), "filename.json"),
     FilePath(ARCHIVE_ROOT, "archiving_list.txt")}

Distribute(CHANNEL, reference_mode, archive_file_path) ==
    /\ slave_out' = distribute(CHANNEL, reference_mode, archive_file_path)
    /\ UNCHANGED <<INTERNAL_PROJECT_BUS, gh_pub, master_out>>
    /\ UNCHANGED <<busVars, diskVars, chanVars, fileVars>>

(***************************************************************************)
(* Project_Master_Controller.py and channel.py                             *)
(***************************************************************************)
NoReception == [called |-> FALSE, CHANNEL |-> "", data |-> None, cats |-> <<>>,
                PROJECT_INFO |-> <<>>, PROJECT_NAME |-> "", ASSET_ROOT |-> ""]

InitChan ==
    /\ merged_data = None
    /\ INTERNAL_STORAGE = <<>>
    /\ recv_out = NoReception
    /\ gh_tx = {}

\* ProjectMasterController.execute_management of Project_Master_Controller.py
ControllerExecute(project_name, asset_save_root, archive_root, kwargs) ==
    LET package == total_package(project_name, asset_save_root, strftime(now), kwargs)
    IN /\ runs < MaxRuns
       /\ Archive(project_name, asset_save_root, archive_root, package)
       /\ merged_data' = Some(package)
       /\ UNCHANGED <<INTERNAL_STORAGE, recv_out, gh_tx>>
       /\ UNCHANGED <<busVars, msVars, fileVars>>

\* SenderNode.execute_transmission of channel.py
execute_transmission(storage, MASTER_DATA, CHANNEL) == DictSet(storage, CHANNEL, MASTER_DATA)

Transmit(MASTER_DATA, CHANNEL) ==
    /\ INTERNAL_STORAGE' = execute_transmission(INTERNAL_STORAGE, MASTER_DATA, CHANNEL)
    /\ gh_tx' = gh_tx \cup {CHANNEL}
    /\ UNCHANGED <<merged_data, recv_out>>
    /\ UNCHANGED <<busVars, diskVars, msVars, fileVars>>

\* ReceiverNode.execute_reception of channel.py
execute_reception(CHANNEL) ==
    LET data == DictGetOpt(INTERNAL_STORAGE, CHANNEL)
    IN IF Falsy(data)
       THEN [called |-> TRUE, CHANNEL |-> CHANNEL, data |-> data,
             cats |-> <<<<>>, <<>>, <<>>, <<>>, <<>>, <<>>>>,
             PROJECT_INFO |-> <<>>, PROJECT_NAME |-> "NONE", ASSET_ROOT |-> "NONE"]
       ELSE LET info == DictGet(data[1], "project_info", <<>>)
                settings == DictGet(data[1], "settings", <<>>)
            IN [called |-> TRUE, CHANNEL |-> CHANNEL, data |-> data,
                cats |-> <<DictGet(settings, "01_Background", <<>>),
                           DictGet(settings, "02_Equipment", <<>>),
                           DictGet(settings, "03_Character", <<>>),
                           DictGet(settings, "04_Structure", <<>>),
                           DictGet(settings, "05_SpecialEffects", <<>>),
                           DictGet(settings, "06_Audio", <<>>)>>,
                PROJECT_INFO |-> info,
                PROJECT_NAME |-> DictGet(info, "name", "Unknown"),
                ASSET_ROOT |-> DictGet(info, "root", "")]

Reception(CHANNEL) ==
    /\ recv_out' = execute_reception(CHANNEL)
    /\ UNCHANGED <<merged_data, INTERNAL_STORAGE, gh_tx>>
    /\ UNCHANGED <<busVars, diskVars, msVars, fileVars>>

(***************************************************************************)
(* JSON text: sizes and the key-sorted form                                *)
(*                                                                         *)
(* A master record is a dict of dicts: project_info maps field names to    *)
(* strings, every other top-level key maps category keys to records of     *)
(* strings.                                                                *)
(***************************************************************************)
max_payload_size == 104857600
\* a string too long to write out: max_payload_size characters
Blob == "<blob>"
StrLen(str) == IF str = Blob THEN max_payload_size ELSE Len(str)

\* a dict key that is a Python int, and the string json.dumps writes for a key
IntKey(n) == "<int " \o ToString(n) \o ">"
json_key(k) ==
    IF \E n \in {2, 10} : k = IntKey(n)
    THEN ToString(CHOOSE n \in {2, 10} : k = IntKey(n))
    ELSE k

\* len(json.dumps(x)) with the default separators ", " and ": "
StrJsonLen(str) == StrLen(str) + 2
DictJsonLen(d, item_len) ==
    LET RECURSIVE SumOver(_)
        SumOver(n) == IF n = 0 THEN 0 ELSE item_len[n] + SumOver(n - 1)
    IN 2 + SumOver(Len(d)) + (IF Len(d) > 1 THEN 2 * (Len(d) - 1) ELSE 0)
FlatJsonLen(d) ==
    DictJsonLen(d, [i \in DOMAIN d |->
        StrJsonLen(json_key(d[i][1])) + 2 + StrJsonLen(d[i][2])])
NestedJsonLen(d) ==
    DictJsonLen(d, [i \in DOMAIN d |->
        StrJsonLen(json_key(d[i][1])) + 2 + FlatJsonLen(d[i][2])])
MasterJsonLen(d) ==
    DictJsonLen(d, [i \in DOMAIN d |->
        StrJsonLen(json_key(d[i][1])) + 2
            + (IF d[i][1] = "project_info" THEN FlatJsonLen(d[i][2])
                                   ELSE NestedJsonLen(d[i][2]))])

\* a dict as json.dumps writes it and json.load reads it back: every key a string
JsonMaster(d) ==
    LET JsonFlat(r) == [i \in DOMAIN r |-> <<json_key(r[i][1]), r[i][2]>>]
        JsonNested(c) == [i \in DOMAIN c |-> <<json_key(c[i][1]), JsonFlat(c[i][2])>>]
    IN [i \in DOMAIN d |->
           <<json_key(d[i][1]), IF d[i][1] = "project_info" THEN JsonFlat(d[i][2])
                                ELSE JsonNested(d[i][2])>>]

\* the keys in use, in the order Python compares them: the int keys by value,
\* the strings by code point (no dict of the inputs mixes the two, which sorted()
\* cannot compare)
KEY_ORDER == <<IntKey(2), IntKey(10),
               "01_Background", "02_Equipment", "03_Character", "04_Structure",
               "05_SpecialEffects", "06_Audio", "10", "2", "asset_path", "bpm", "categories",
               "description", "lora", "name", "project_info", "prompt", "root",
               "settings", "timestamp", "version">>

\* the items of a dict ordered by key, as json.dumps(sort_keys=True) writes them
RECURSIVE SortItems(_)
SortItems(d) ==
    IF d = <<>> THEN <<>>
    ELSE LET KeyRank(k) == CHOOSE i \in DOMAIN KEY_ORDER : KEY_ORDER[i] = k
             m == CHOOSE i \in DOMAIN d :
                    \A j \in DOMAIN d : KeyRank(d[i][1]) <= KeyRank(d[j][1])
         IN <<d[m]>> \o SortItems([i \in 1..(Len(d) - 1) |-> IF i < m THEN d[i] ELSE d[i + 1]])
SortNested(d) == SortItems([i \in DOMAIN d |-> <<d[i][1], SortItems(d[i][2])>>])
\* json.dumps(data, sort_keys=True, ensure_ascii=False) of a master record: the
\* items are ordered by their keys as the dict holds them, and each key is
\* written as a string
dumps_sort_keys(data) ==
    JsonMaster(SortItems([i \in DOMAIN data |->
        <<data[i][1], IF data[i][1] = "project_info" THEN SortItems(data[i][2])
                      ELSE SortNested(data[i][2])>>]))

\* hashlib.sha256(text.encode()).hexdigest(): distinct texts give distinct digests
sha256(text) == <<"sha256", text>>
NoChecksum == <<>>

(***************************************************************************)
(* Inputs of Sender_Node.py and Receiver_Node.py                           *)
(***************************************************************************)
PyDict(v) == [type |-> "dict", v |-> v]
PyStr(chars) == [type |-> "str", v |-> chars]
PyInt(n) == [type |-> "int", v |-> n]
NotADict == [type |-> "list", v |-> <<>>]
NotAStr == [type |-> "int", v |-> <<>>]

Info == << <<"name", "DEMO">>, <<"asset_path", "out/DEMO">> >>
Payload1 == << <<"project_info", Info>>,
               <<"categories", << <<"06_Audio", Epic>>, <<"01_Background", Sunset>> >> >> >>
\* the same record as Payload1 with its keys inserted in another order
Payload1b == << <<"categories", << <<"01_Background", Sunset>>,
                                   <<"06_Audio", << <<"bpm", "128">>,
                                                    <<"prompt", "Epic cinematic">> >> >> >> >>,
                <<"project_info", << <<"asset_path", "out/DEMO">>, <<"name", "DEMO">> >> >> >>
Payload2 == << <<"project_info", <<>>>>, <<"categories", <<>>>> >>
\* what the Master Controller builds: project_info and settings
MasterBuilt == total_package("DEMO", "output/Asset_Library", strftime(0),
                             << <<"01_Background", Some(Sunset)>> >>)
TooBig == << <<"project_info", Info>>,
             <<"categories", << <<"01_Background", << <<"prompt", Blob>> >> >> >> >> >>
\* the project_info of the Master Controller in a record the Sender accepts
WithProjectInfo == << <<"project_info", DictGet(MasterBuilt, "project_info", <<>>)>>,
                      <<"categories", DictGet(MasterBuilt, "settings", <<>>)>> >>
\* a record the Sender accepts whose Background record has the int keys 2 and 10
IntKeyed == << <<"project_info", <<>>>>,
               <<"categories", << <<"01_Background", << <<IntKey(2), "a">>,
                                                        <<IntKey(10), "b">> >> >> >> >> >>
ValidPayloads == {Payload1, Payload1b, Payload2}
SenderData ==
    {PyDict(d) : d \in ValidPayloads \cup {MasterBuilt, WithProjectInfo, TooBig,
                                           << <<"categories", <<>>>> >>}}
        \cup {NotADict}

Blank == <<" ">>
FileChannels == {<<"C", "H">>, <<"A", "/", "B">>, <<"A", "_", "B">>}
SenderChannels == {PyStr(c) : c \in FileChannels \cup {Blank}} \cup {NotAStr}
CategoryFilters == {PyInt(0), PyInt(6), PyInt(7), [type |-> "str", v |-> 0]}

(***************************************************************************)
(* Sender_Node.py                                                          *)
(***************************************************************************)
\* str.strip(): leading and trailing whitespace removed
strip(chars) ==
    LET RECURSIVE lstrip(_)
        lstrip(cs) ==
            IF cs # <<>> /\ Head(cs) \in {" ", "\t", "\n"} THEN lstrip(Tail(cs)) ELSE cs
        RECURSIVE rstrip(_)
        rstrip(cs) ==
            IF cs # <<>> /\ cs[Len(cs)] \in {" ", "\t", "\n"}
            THEN rstrip(SubSeq(cs, 1, Len(cs) - 1)) ELSE cs
    IN rstrip(lstrip(chars))

\* channel.replace("/", "_").replace("\\", "_")
channel_safe(channel) ==
    [i \in DOMAIN channel |-> IF channel[i] \in {"/", "\\"} THEN "_" ELSE channel[i]]
latest_file(channel) == <<channel_safe(channel), "_latest.json">>
backup_file(channel) == <<channel_safe(channel), "_backup.json">>

\* the files .cache/channels can hold
CacheFiles == {latest_file(c) : c \in FileChannels} \cup {backup_file(c) : c \in FileChannels}

_generate_checksum(data) == sha256(dumps_sort_keys(data))

\* SenderNode.validate_inputs: <<ok, message>>
Sender_validate_inputs(master_data, channel) ==
    IF master_data.type # "dict" THEN <<FALSE, "MASTER_DATA is not a dict">>
    ELSE IF ~DictHas(master_data.v, "project_info")
    THEN <<FALSE, "MASTER_DATA has no project_info">>
    ELSE IF ~DictHas(master_data.v, "categories")
    THEN <<FALSE, "MASTER_DATA has no categories">>
    ELSE IF channel.type # "str" THEN <<FALSE, "CHANNEL is not a str">>
    ELSE IF strip(channel.v) = <<>> THEN <<FALSE, "CHANNEL is blank">>
    ELSE IF MasterJsonLen(master_data.v) > max_payload_size
    THEN <<FALSE, "payload too large">>
    ELSE <<TRUE, "inputs valid">>

\* SenderNode._pack_data; enable_checksum is True in self.config
_pack_data(master_data, channel) ==
    [metadata |-> [channel |-> channel,
                   sender |-> "Sender Node (Channel-based Data Transmission) v1.2",
                   timestamp |-> now,
                   format |-> "json",
                   checksum |-> _generate_checksum(master_data)],
     payload |-> Some(master_data)]

\* a cache file that open(cache_file, 'w') created and json.dump did not finish:
\* it holds a proper prefix of the text, possibly nothing, and json.load raises
CutEnvelope ==
    [metadata |-> [channel |-> <<>>, sender |-> "", timestamp |-> 0, format |-> "<cut>",
                   checksum |-> NoChecksum],
     payload |-> None]

\* json.dump(packed_data, f, indent=2, ensure_ascii=False): a file is held as
\* the value its text parses to, the items in the order written and every key
\* of the payload a string
json_dump(packed_data) ==
    [packed_data EXCEPT !.payload = Some(JsonMaster(packed_data.payload[1]))]

\* SenderNode._save_to_cache: the latest file becomes the backup, then the new
\* envelope is written as the latest file
_save_to_cache(files_, channel, packed_data) ==
    LET rotated ==
            IF files_[latest_file(channel)] # None
            THEN [files_ EXCEPT ![backup_file(channel)] = files_[latest_file(channel)],
                                ![latest_file(channel)] = None]
            ELSE files_
    IN [rotated EXCEPT ![latest_file(channel)] = Some(json_dump(packed_data))]

NoExecute == [node |-> "none", MASTER_DATA |-> NotADict, CHANNEL |-> NotAStr,
              CATEGORY_FILTER |-> PyInt(0), read |-> None, intact |-> FALSE,
              STATUS |-> "", MESSAGE |-> "", TIMESTAMP |-> 0, CHECKSUM |-> NoChecksum,
              PROJECT_INFO |-> <<>>, sockets |-> <<>>]

\* the result of SenderNode.execute
Sender_result(MASTER_DATA, CHANNEL) ==
    LET v == Sender_validate_inputs(MASTER_DATA, CHANNEL)
        call == [NoExecute EXCEPT !.node = "Sender", !.MASTER_DATA = MASTER_DATA,
                                  !.CHANNEL = CHANNEL]
    IN IF ~v[1]
       THEN [call EXCEPT !.STATUS = "FAILED", !.MESSAGE = v[2], !.TIMESTAMP = now,
                         !.CHECKSUM = NoChecksum]
       ELSE [call EXCEPT !.STATUS = "SUCCESS", !.MESSAGE = "sent", !.TIMESTAMP = now,
                         !.CHECKSUM = _pack_data(MASTER_DATA.v, CHANNEL.v).metadata.checksum]

\* an execute that would save whatever validate_inputs says
Sender_cache_always(MASTER_DATA, CHANNEL) ==
    IF MASTER_DATA.type = "dict" /\ CHANNEL.type = "str" /\ CHANNEL.v \in FileChannels
    THEN _save_to_cache(cache, CHANNEL.v, _pack_data(MASTER_DATA.v, CHANNEL.v))
    ELSE cache
\* what SenderNode.execute leaves in .cache/channels
Sender_cache(MASTER_DATA, CHANNEL) ==
    IF Sender_validate_inputs(MASTER_DATA, CHANNEL)[1]
    THEN _save_to_cache(cache, CHANNEL.v, _pack_data(MASTER_DATA.v, CHANNEL.v))
    ELSE cache

\* SenderNode.execute
SenderExecute(MASTER_DATA, CHANNEL) ==
    /\ sent < MaxSends
    /\ sent' = sent + 1
    /\ node_out' = Sender_result(MASTER_DATA, CHANNEL)
    /\ cache' = Sender_cache(MASTER_DATA, CHANNEL)
    /\ gh_sent' = IF Sender_validate_inputs(MASTER_DATA, CHANNEL)[1]
                  THEN [gh_sent EXCEPT ![latest_file(CHANNEL.v)] = Some(MASTER_DATA.v)]
                  ELSE gh_sent
    /\ gh_names' = IF Sender_validate_inputs(MASTER_DATA, CHANNEL)[1]
                   THEN gh_names \cup {CHANNEL} ELSE gh_names
    /\ gh_hist' = IF Sender_validate_inputs(MASTER_DATA, CHANNEL)[1]
                  THEN [gh_hist EXCEPT ![CHANNEL.v].sends = Append(@, MASTER_DATA.v)]
                  ELSE gh_hist
    /\ UNCHANGED <<node_dir, saving, loading>>
    /\ UNCHANGED <<busVars, diskVars, msVars, chanVars>>

\* the file of a channel is changed on disk by something other than the Sender:
\* its payload is replaced and its metadata kept
CorruptCache(file, payload) ==
    /\ cache[file] # None
    /\ gh_sent[file] # None
    /\ cache[file][1].payload # Some(payload)
    /\ cache' = [cache EXCEPT ![file] = Some([cache[file][1] EXCEPT !.payload = Some(payload)])]
    /\ gh_sent' = [gh_sent EXCEPT ![file] = None]
    /\ gh_hist' = [c \in FileChannels |->
                      IF latest_file(c) = file THEN [gh_hist[c] EXCEPT !.other = TRUE]
                      ELSE gh_hist[c]]
    /\ UNCHANGED <<node_dir, node_out, sent, gh_names, saving, loading>>
    /\ UNCHANGED <<busVars, diskVars, msVars, chanVars>>

(***************************************************************************)
(* Receiver_Node.py                                                        *)
(***************************************************************************)
\* __init__.initialize_modular_infra makes the folder of every category
initialize_modular_infra(listing) == listing \cup {CATEGORIES[i] : i \in DOMAIN CATEGORIES}

\* the number a folder name starts with: CATEGORIES[i] starts with "0i_"
FolderNumber(name) == CHOOSE i \in DOMAIN CATEGORIES : CATEGORIES[i] = name

\* ReceiverNode._load_categories_dynamically: dict number -> folder name
_load_categories_dynamically(listing) ==
    LET found == SelectSeq(CATEGORIES, LAMBDA name : name \in listing)
    IN IF found = <<>>
       THEN [i \in DOMAIN CATEGORIES |-> <<i, CATEGORIES[i]>>]
       ELSE [i \in DOMAIN found |-> <<FolderNumber(found[i]), found[i]>>]

\* name.replace("_", " ").split(" ", 1)[1].upper()
UPPER_NAME == [n \in {CATEGORIES[i] : i \in DOMAIN CATEGORIES} |->
    CASE n = "01_Background" -> "BACKGROUND"
      [] n = "02_Equipment" -> "EQUIPMENT"
      [] n = "03_Character" -> "CHARACTER"
      [] n = "04_Structure" -> "STRUCTURE"
      [] n = "05_SpecialEffects" -> "SPECIALEFFECTS"
      [] n = "06_Audio" -> "AUDIO"]
socket_name(cat_num, folder) == ToString(cat_num) \o "_" \o UPPER_NAME[folder]

\* ReceiverNode._verify_checksum; validate_checksum is True in self.config
_verify_checksum(data, checksum) == sha256(dumps_sort_keys(data)) = checksum

\* open(cache_file, 'r') and json.load of _load_from_cache, given what is at
\* the path: open raises on a missing file and json.load on a cut one, and the
\* except branch returns; else json.load gives the value the text holds, which
\* has the keys as json.dump wrote them
open_and_load(content) ==
    IF content = None \/ content = Some(CutEnvelope)
    THEN <<FALSE, "cache load failed", None>>
    ELSE <<TRUE, "loaded from cache", content>>

\* ReceiverNode._load_from_cache: <<ok, message, packed_data>>; json.load raises
\* on a cut file and the except branch returns
_load_from_cache(channel) ==
    IF cache[latest_file(channel)] = None
    THEN <<FALSE, "channel has no data", None>>
    ELSE open_and_load(cache[latest_file(channel)])

\* ReceiverNode.validate_inputs: <<ok, message>>
Receiver_validate_inputs(categories, channel, category_filter) ==
    IF channel.type # "str" \/ strip(channel.v) = <<>>
    THEN <<FALSE, "CHANNEL must be a non-empty str">>
    ELSE IF category_filter.type # "int" THEN <<FALSE, "CATEGORY_FILTER must be an int">>
    ELSE LET max_cat == CHOOSE m \in {categories[i][1] : i \in DOMAIN categories} :
                            \A i \in DOMAIN categories : categories[i][1] <= m
         IN IF ~(0 <= category_filter.v /\ category_filter.v <= max_cat)
            THEN <<FALSE, "CATEGORY_FILTER out of range">>
            ELSE <<TRUE, "inputs valid">>

\* an unpacking that would skip the checksum
_unpack_data_unchecked(packed_data) ==
    IF packed_data.payload = None \/ packed_data.payload[1] = <<>>
    THEN <<FALSE, "no payload", None>>
    ELSE <<TRUE, "unpacked", packed_data.payload>>
\* ReceiverNode._unpack_data: <<ok, message, payload>>; enable_checksum is True
_unpack_data(packed_data) ==
    IF packed_data.payload = None \/ packed_data.payload[1] = <<>>
    THEN <<FALSE, "no payload", None>>
    ELSE IF ~_verify_checksum(packed_data.payload[1], packed_data.metadata.checksum)
    THEN <<FALSE, "checksum mismatch", None>>
    ELSE <<TRUE, "unpacked", packed_data.payload>>

\* ReceiverNode._extract_project_info
_extract_project_info(master_data) ==
    LET project_info == DictGet(master_data, "project_info", <<>>)
    IN << <<"name", DictGet(project_info, "name", "Unknown")>>,
          <<"asset_path", DictGet(project_info, "asset_path", "")>>,
          <<"description", DictGet(project_info, "description", "")>>,
          <<"version", DictGet(project_info, "version", "1.0")>>,
          <<"timestamp", ToString(now)>> >>     \* an int, written in decimal

\* ReceiverNode._extract_categories: dict number -> record
_extract_categories(categories, master_data, category_filter) ==
    LET categories_data == DictGet(master_data, "categories", <<>>)
        categories_to_extract ==
            IF category_filter = 0 THEN categories
            ELSE SelectSeq(categories, LAMBDA c : c[1] = category_filter)
    IN [i \in DOMAIN categories_to_extract |->
           <<categories_to_extract[i][1],
             DictGet(categories_data, categories_to_extract[i][2], <<>>)>>]

\* ReceiverNode._create_error_output
_create_error_output(categories, call, message) ==
    [call EXCEPT !.PROJECT_INFO = <<>>,
                 !.sockets = [i \in DOMAIN categories |->
                                 <<socket_name(categories[i][1], categories[i][2]), <<>>>>],
                 !.STATUS = "FAILED",
                 !.MESSAGE = message]

\* steps 3 to 5 of ReceiverNode.execute, given what _load_from_cache returned
Receiver_after_load(categories, call, CATEGORY_FILTER, loaded) ==
    LET read == [call EXCEPT !.read = loaded[3]]
    IN IF ~loaded[1] THEN _create_error_output(categories, read, loaded[2])
       ELSE LET unpacked == _unpack_data(loaded[3][1])
            IN IF ~unpacked[1]
               THEN _create_error_output(categories, read, unpacked[2])
               ELSE LET extracted == _extract_categories(categories, unpacked[3][1],
                                                         CATEGORY_FILTER.v)
                    IN [read EXCEPT
                         !.PROJECT_INFO = _extract_project_info(unpacked[3][1]),
                         !.sockets = [i \in DOMAIN categories |->
                             <<socket_name(categories[i][1], categories[i][2]),
                               DictGet(extracted, categories[i][1], <<>>)>>],
                         !.STATUS = "SUCCESS",
                         !.MESSAGE = "received"]

\* the result of ReceiverNode.execute
Receiver_result(CHANNEL, CATEGORY_FILTER) ==
    LET categories == _load_categories_dynamically(node_dir)
        call == [NoExecute EXCEPT !.node = "Receiver", !.CHANNEL = CHANNEL,
                                  !.CATEGORY_FILTER = CATEGORY_FILTER]
        v == Receiver_validate_inputs(categories, CHANNEL, CATEGORY_FILTER)
    IN IF ~v[1] THEN _create_error_output(categories, call, v[2])
       ELSE Receiver_after_load(categories, call, CATEGORY_FILTER,
                                _load_from_cache(CHANNEL.v))

\* ReceiverNode.execute
ReceiverExecute(CHANNEL, CATEGORY_FILTER) ==
    /\ sent < MaxSends
    /\ sent' = sent + 1
    /\ node_out' = [Receiver_result(CHANNEL, CATEGORY_FILTER) EXCEPT
                        !.intact = /\ CHANNEL.type = "str"
                                   /\ latest_file(CHANNEL.v) \in CacheFiles
                                   /\ gh_sent[latest_file(CHANNEL.v)] # None]
    /\ UNCHANGED <<node_dir, cache, gh_sent, gh_names, gh_hist, saving, loading>>
    /\ UNCHANGED <<busVars, diskVars, msVars, chanVars>>

InitFile ==
    /\ node_dir \in {{}, initialize_modular_infra({})}
    /\ cache = [f \in CacheFiles |-> None]
    /\ node_out = NoExecute
    /\ sent = 0
    /\ gh_sent = [f \in CacheFiles |-> None]
    /\ gh_names = {}
    /\ gh_hist = [c \in FileChannels |-> [sends |-> <<>>, other |-> FALSE]]
    /\ saving = None
    /\ loading = None

(***************************************************************************)
(* SenderNode.execute step by step: _save_to_cache removes the backup,      *)
(* renames the latest file to the backup name, opens the latest file for   *)
(* writing and dumps the envelope into it; another thread may run a        *)
(* Receiver between two steps, and each step may fail.                     *)
(***************************************************************************)
\* the sends that returned SUCCESS so far
RECURSIVE Successes(_)
Successes(channels) ==
    IF channels = {} THEN 0
    ELSE LET c == CHOOSE c \in channels : TRUE
         IN Len(gh_hist[c].sends) + Successes(channels \ {c})

\* execute validates and packs, and enters _save_to_cache
SaveBegin(MASTER_DATA, CHANNEL) ==
    /\ Successes(FileChannels) < MaxSends
    /\ saving = None
    /\ Sender_validate_inputs(MASTER_DATA, CHANNEL)[1]
    /\ UNCHANGED sent
    /\ saving' = Some([pc |-> "rotate", MASTER_DATA |-> MASTER_DATA, CHANNEL |-> CHANNEL,
                       packed_data |-> _pack_data(MASTER_DATA.v, CHANNEL.v)])
    /\ UNCHANGED <<node_dir, cache, node_out, gh_sent, gh_names, gh_hist, loading>>
    /\ UNCHANGED <<busVars, diskVars, msVars, chanVars>>

\* if cache_file.exists(): if backup_file.exists(): backup_file.unlink()
SaveRotate ==
    /\ saving # None
    /\ saving[1].pc = "rotate"
    /\ LET channel == saving[1].CHANNEL.v
       IN IF cache[latest_file(channel)] # None
          THEN /\ cache' = [cache EXCEPT ![backup_file(channel)] = None]
               /\ saving' = Some([saving[1] EXCEPT !.pc = "rename"])
          ELSE /\ UNCHANGED cache
               /\ saving' = Some([saving[1] EXCEPT !.pc = "open"])
    /\ UNCHANGED <<node_dir, node_out, sent, gh_sent, gh_names, gh_hist, loading>>
    /\ UNCHANGED <<busVars, diskVars, msVars, chanVars>>

\* cache_file.rename(backup_file)
SaveRename ==
    /\ saving # None
    /\ saving[1].pc = "rename"
    /\ LET channel == saving[1].CHANNEL.v
       IN /\ cache' = [cache EXCEPT ![backup_file(channel)] = cache[latest_file(channel)],
                                    ![latest_file(channel)] = None]
          /\ gh_sent' = [gh_sent EXCEPT ![latest_file(channel)] = None]
    /\ saving' = Some([saving[1] EXCEPT !.pc = "open"])
    /\ UNCHANGED <<node_dir, node_out, sent, gh_names, gh_hist, loading>>
    /\ UNCHANGED <<busVars, diskVars, msVars, chanVars>>

\* open(cache_file, 'w'): the file is created, or truncated, and is empty
SaveOpen ==
    /\ saving # None
    /\ saving[1].pc = "open"
    /\ LET channel == saving[1].CHANNEL.v
       IN /\ cache' = [cache EXCEPT ![latest_file(channel)] = Some(CutEnvelope)]
          /\ gh_sent' = [gh_sent EXCEPT ![latest_file(channel)] = None]
    /\ saving' = Some([saving[1] EXCEPT !.pc = "dump"])
    /\ UNCHANGED <<node_dir, node_out, sent, gh_names, gh_hist, loading>>
    /\ UNCHANGED <<busVars, diskVars, msVars, chanVars>>

\* json.dump and the close succeed, execute returns SUCCESS
SaveWrite ==
    /\ saving # None
    /\ saving[1].pc = "dump"
    /\ LET channel == saving[1].CHANNEL.v
       IN /\ cache' = [cache EXCEPT ![latest_file(channel)] =
                                        Some(json_dump(saving[1].packed_data))]
          /\ gh_sent' = [gh_sent EXCEPT ![latest_file(channel)] = Some(saving[1].MASTER_DATA.v)]
          /\ gh_hist' = [gh_hist EXCEPT ![channel].sends = Append(@, saving[1].MASTER_DATA.v)]
    /\ gh_names' = gh_names \cup {saving[1].CHANNEL}
    /\ node_out' = [NoExecute EXCEPT !.node = "Sender", !.MASTER_DATA = saving[1].MASTER_DATA,
                                     !.CHANNEL = saving[1].CHANNEL, !.STATUS = "SUCCESS",
                                     !.MESSAGE = "sent",
                                     !.TIMESTAMP = saving[1].packed_data.metadata.timestamp,
                                     !.CHECKSUM = saving[1].packed_data.metadata.checksum]
    /\ saving' = None
    /\ loading' = IF loading # None /\ loading[1].growing
                  THEN Some([loading[1] EXCEPT !.opened = Some(json_dump(saving[1].packed_data)),
                                               !.growing = FALSE, !.intact = TRUE])
                  ELSE loading
    /\ UNCHANGED <<node_dir, sent>>
    /\ UNCHANGED <<busVars, diskVars, msVars, chanVars>>

\* the step the save is at (unlink, rename, open, or json.dump and close) raises:
\* _save_to_cache catches the exception and execute returns FAILED, with the
\* files as the steps done so far left them; after the open that is a cut file
SaveFail ==
    /\ saving # None
    /\ node_out' = [NoExecute EXCEPT !.node = "Sender", !.MASTER_DATA = saving[1].MASTER_DATA,
                                     !.CHANNEL = saving[1].CHANNEL, !.STATUS = "FAILED",
                                     !.MESSAGE = "cache save failed",
                                     !.TIMESTAMP = saving[1].packed_data.metadata.timestamp,
                                     !.CHECKSUM = saving[1].packed_data.metadata.checksum]
    /\ saving' = None
    /\ loading' = IF loading # None /\ loading[1].growing
                  THEN Some([loading[1] EXCEPT !.growing = FALSE])
                  ELSE loading
    /\ UNCHANGED <<node_dir, cache, sent, gh_sent, gh_names, gh_hist>>
    /\ UNCHANGED <<busVars, diskVars, msVars, chanVars>>

(***************************************************************************)
(* ReceiverNode.execute step by step: _load_from_cache asks whether the    *)
(* latest file exists, opens it and reads it, without a lock; the steps of *)
(* a save may come in between.                                             *)
(***************************************************************************)
\* execute validates and _load_from_cache runs cache_file.exists(): with no file
\* execute returns that the channel has no data
LoadBegin(CHANNEL, CATEGORY_FILTER) ==
    /\ sent < MaxSends
    /\ loading = None
    /\ Receiver_validate_inputs(_load_categories_dynamically(node_dir), CHANNEL,
                                CATEGORY_FILTER)[1]
    /\ IF cache[latest_file(CHANNEL.v)] = None
       THEN /\ node_out' = [Receiver_result(CHANNEL, CATEGORY_FILTER) EXCEPT !.intact = FALSE]
            /\ sent' = sent + 1
            /\ UNCHANGED loading
       ELSE /\ loading' = Some([pc |-> "open", CHANNEL |-> CHANNEL,
                                CATEGORY_FILTER |-> CATEGORY_FILTER, opened |-> None,
                                growing |-> FALSE, intact |-> FALSE])
            /\ UNCHANGED <<node_out, sent>>
    /\ UNCHANGED <<node_dir, cache, gh_sent, gh_names, gh_hist, saving>>
    /\ UNCHANGED <<busVars, diskVars, msVars, chanVars>>

\* what execute returns once _load_from_cache has returned
LoadResult(loaded) ==
    [Receiver_after_load(_load_categories_dynamically(node_dir),
                         [NoExecute EXCEPT !.node = "Receiver",
                                           !.CHANNEL = loading[1].CHANNEL,
                                           !.CATEGORY_FILTER = loading[1].CATEGORY_FILTER],
                         loading[1].CATEGORY_FILTER, loaded)
        EXCEPT !.intact = loading[1].intact]

\* open(cache_file, 'r'): with the file renamed away since exists() the open
\* raises and execute returns; else the file at the path is the one read later,
\* also when it is renamed, and a save that is dumping into it may still fill it
LoadOpen ==
    /\ loading # None
    /\ loading[1].pc = "open"
    /\ LET file == latest_file(loading[1].CHANNEL.v)
       IN IF cache[file] = None
          THEN /\ node_out' = LoadResult(open_and_load(None))
               /\ sent' = sent + 1
               /\ loading' = None
          ELSE /\ loading' = Some([loading[1] EXCEPT
                                     !.pc = "read",
                                     !.opened = cache[file],
                                     !.growing = /\ saving # None
                                                 /\ saving[1].pc = "dump"
                                                 /\ latest_file(saving[1].CHANNEL.v) = file,
                                     !.intact = gh_sent[file] # None])
               /\ UNCHANGED <<node_out, sent>>
    /\ UNCHANGED <<node_dir, cache, gh_sent, gh_names, gh_hist, saving>>
    /\ UNCHANGED <<busVars, diskVars, msVars, chanVars>>

\* json.load(f) and the rest of execute
LoadRead ==
    /\ loading # None
    /\ loading[1].pc = "read"
    /\ node_out' = LoadResult(open_and_load(loading[1].opened))
    /\ sent' = sent + 1
    /\ loading' = None
    /\ UNCHANGED <<node_dir, cache, gh_sent, gh_names, gh_hist, saving>>
    /\ UNCHANGED <<busVars, diskVars, msVars, chanVars>>

(***************************************************************************)
(* 01_Background/01_Background_Setting_Node.py                             *)
(*                                                                         *)
(* A JSON value is a pair <<type, value>>.  config.json is absent, is not  *)
(* JSON, is a JSON array, or is a JSON object whose entry for the          *)
(* parameter is missing, is a string or is an object.  A folder entry is a *)
(* pair <<stem, extension>>.                                               *)
(***************************************************************************)
JStr(text) == <<"str", text>>
JInt(n) == <<"int", n>>
JFloat(literal) == <<"float", literal>>
JList(items) == <<"list", items>>
JDict(items) == <<"dict", items>>

\* str(val)
str(val) == IF val[1] = "int" THEN ToString(val[2]) ELSE val[2]

ParamNames == {"ckpt", "prompt", "ratio", "mode"}

NoConfig == [kind |-> "absent", entry |-> None]
Unparsable == [kind |-> "unparsable", entry |-> None]
JsonArray == [kind |-> "array", entry |-> None]
EntryMissing == [kind |-> "object", entry |-> None]
EntryNotDict == [kind |-> "object", entry |-> Some(JStr("combo"))]
ConfigOf(conf_data) == [kind |-> "object", entry |-> Some(JDict(conf_data))]

\* DEFAULT_DATA["01_Background"], with the prompt shortened
DEFAULT_DATA ==
    << <<"ckpt", << <<"type", JStr("combo")>>, <<"value", JStr("pony.safetensors")>> >> >>,
       <<"prompt", << <<"type", JStr("string")>>, <<"value", JStr("score_9")>> >> >>,
       <<"ratio", << <<"type", JStr("combo")>>, <<"value", JStr("16:9")>> >> >> >>

WellFormedConfigs ==
    {EntryMissing,
     ConfigOf(<< <<"type", JStr("combo")>>, <<"value", JStr("16:9")>> >>),
     ConfigOf(<< <<"type", JStr("combo")>>, <<"options", JList(<<"16:9", "1:1">>)>> >>),
     ConfigOf(<< <<"type", JStr("combo")>>, <<"value", JInt(3)>>, <<"options", JList(<<>>)>> >>),
     ConfigOf(<< <<"type", JStr("string")>>, <<"value", JInt(7)>> >>),
     ConfigOf(<< <<"type", JStr("int")>>, <<"value", JInt(12)>>, <<"max", JInt(60)>> >>),
     ConfigOf(<< <<"type", JStr("float")>>, <<"value", JFloat("0.8")>>,
                 <<"min", JFloat("0.0")>>, <<"max", JFloat("2.0")>> >>)}
MalformedConfigs == {Unparsable, JsonArray, EntryNotDict}
Configs == {NoConfig} \cup WellFormedConfigs \cup MalformedConfigs

NoFolder == [exists |-> FALSE, entries |-> <<>>, config |-> NoConfig]
PresetEntries == << <<"sunset", "">>, <<"notes", ".txt">>, <<"night", "">> >>

\* the lines of order_list.txt: parameter names and blank lines
OrderLines == ParamNames \cup {""}
OrderLists ==
    {<<>>, <<"ratio">>, <<"mode", "ckpt">>, <<"ckpt", "", "ratio">>, <<"ratio", "ckpt", "ratio">>,
     <<"prompt", "ratio", "ckpt", "mode">>}

\* the setting folder as initialize_modular_infra leaves it
InitSetting ==
    /\ setting = [order_file |-> Some([i \in DOMAIN DEFAULT_DATA |-> DEFAULT_DATA[i][1]]),
                  folders |-> [k \in ParamNames |->
                      IF DictHas(DEFAULT_DATA, k)
                      THEN [exists |-> TRUE, entries |-> <<>>,
                            config |-> ConfigOf(DictGet(DEFAULT_DATA, k, <<>>))]
                      ELSE NoFolder]]
    /\ schema = None
    /\ edits = 0

\* unicodedata.normalize('NFC', l.strip()) for the lines that are not blank; the
\* names written here are ASCII, which NFC leaves as they are
ui_keys(order_file) ==
    IF order_file = None THEN <<>>
    ELSE SelectSeq(order_file[1], LAMBDA l : l # "")

\* [d for d in os.listdir(param_folder) if not d.endswith('.json') and not d.endswith('.txt')]
sub_items(folder) ==
    LET kept == SelectSeq(folder.entries, LAMBDA d : d[2] \notin {".json", ".txt"})
    IN [i \in DOMAIN kept |-> kept[i][1] \o kept[i][2]]

\* json.load(f).get(key, {}) and the reads of conf_data: <<raised, conf_data>>
load_conf_data(config) ==
    IF config.kind \in {"unparsable", "array"} THEN <<TRUE, <<>>>>
    ELSE IF config.entry = None THEN <<FALSE, <<>>>>
    ELSE IF config.entry[1][1] # "dict" THEN <<TRUE, <<>>>>
    ELSE <<FALSE, config.entry[1][2]>>

\* the input one parameter resolves to
resolve(key, folder) ==
    IF folder.config.kind # "absent"
    THEN LET loaded == load_conf_data(folder.config)
             conf_data == loaded[2]
             w_type == DictGet(conf_data, "type", JStr("combo"))
             val == DictGet(conf_data, "value", JStr("none"))
         IN IF loaded[1] THEN << <<"config_error">> >>
            ELSE IF w_type = JStr("float")
            THEN <<"FLOAT", << <<"default", val>>,
                               <<"min", DictGet(conf_data, "min", JFloat("0.0"))>>,
                               <<"max", DictGet(conf_data, "max", JFloat("1.0"))>>,
                               <<"step", DictGet(conf_data, "step", JFloat("0.01"))>> >> >>
            ELSE IF w_type = JStr("int")
            THEN <<"INT", << <<"default", val>>,
                             <<"min", DictGet(conf_data, "min", JInt(0))>>,
                             <<"max", DictGet(conf_data, "max", JInt(100))>> >> >>
            ELSE IF w_type = JStr("string")
            THEN <<"STRING", << <<"default", str(val)>> >> >>
            ELSE LET options == IF DictHas(conf_data, "options")
                                THEN DictGet(conf_data, "options", JList(<<>>))[2]
                                ELSE sub_items(folder)
                 IN IF options # <<>> THEN <<options>>
                    ELSE <<"STRING", << <<"default", str(val)>> >> >>
    ELSE IF sub_items(folder) # <<>> THEN <<sub_items(folder)>>
    ELSE <<"STRING", << <<"default", "none">> >> >>

ModeInput == << <<"Standard", "Variant", "Draft">> >>

\* a loop that would stop at the first config that fails to load
RECURSIVE required_inputs_until_error(_, _, _)
required_inputs_until_error(required_inputs, keys, folders) ==
    IF keys = <<>> THEN required_inputs
    ELSE IF resolve(Head(keys), folders[Head(keys)]) = << <<"config_error">> >>
    THEN required_inputs
    ELSE required_inputs_until_error(
             DictSet(required_inputs, Head(keys), resolve(Head(keys), folders[Head(keys)])),
             Tail(keys), folders)
\* for key in ui_keys: required_inputs[key] = ...
RECURSIVE required_inputs_loop(_, _, _)
required_inputs_loop(required_inputs, keys, folders) ==
    IF keys = <<>> THEN required_inputs
    ELSE required_inputs_loop(
             DictSet(required_inputs, Head(keys), resolve(Head(keys), folders[Head(keys)])),
             Tail(keys), folders)

\* BackgroundSettingNode.INPUT_TYPES: the dict under "required"
INPUT_TYPES(dir) ==
    required_inputs_loop(<< <<"mode", ModeInput>> >>, ui_keys(dir.order_file), dir.folders)

Edit == edits < MaxEdits /\ edits' = edits + 1

\* order_list.txt is rewritten or removed
WriteOrder(order_file) ==
    /\ Edit
    /\ setting' = [setting EXCEPT !.order_file = order_file]
    /\ UNCHANGED schema
    /\ UNCHANGED <<busVars, diskVars, msVars, chanVars, fileVars, ops>>

\* the folder of a parameter is made, filled or removed, its config.json written
WriteFolder(key, folder) ==
    /\ Edit
    /\ setting' = [setting EXCEPT !.folders[key] = folder]
    /\ UNCHANGED schema
    /\ UNCHANGED <<busVars, diskVars, msVars, chanVars, fileVars, ops>>

\* the host asks for the schema
QuerySchema ==
    /\ Edit
    /\ schema' = Some([dir |-> setting, required |-> INPUT_TYPES(setting)])
    /\ UNCHANGED setting
    /\ UNCHANGED <<busVars, diskVars, msVars, chanVars, fileVars, ops>>

Folders ==
    {NoFolder}
    \cup {[exists |-> TRUE, entries |-> <<>>, config |-> c] : c \in Configs}
    \cup {[exists |-> TRUE, entries |-> PresetEntries, config |-> c] :
             c \in {NoConfig, EntryMissing, Unparsable,
                    ConfigOf(<< <<"type", JStr("combo")>>, <<"value", JStr("16:9")>> >>)}}
\* the parameters whose folder is changed
EditedParams == {"ckpt", "ratio", "mode"}

(***************************************************************************)
(* Specifications                                                          *)
(***************************************************************************)
InitAll == InitBus /\ InitDisk /\ InitMS /\ InitChan /\ InitFile /\ InitSetting /\ ops = 0

NextBus ==
    \/ \E t \in Threads, c \in Channels, d \in BusRecords :
            CallSet(t, c, d) /\ UNCHANGED <<ops, settingVars>>
    \/ \E t \in Threads, c \in Channels : CallGet(t, c) /\ UNCHANGED <<ops, settingVars>>
    \/ \E t \in Threads : Acquire(t) /\ UNCHANGED <<ops, settingVars>>
    \/ \E t \in Threads : Body(t) /\ UNCHANGED <<ops, settingVars>>
    \/ \E t \in Threads : Release(t) /\ UNCHANGED <<ops, settingVars>>

SpecBus == InitAll /\ [][NextBus]_vars

\* one caller: every call returns before the next one starts
MainThread == "t1"
NextBusSeq ==
    \/ \E c \in Channels, d \in BusRecords : CallSet(MainThread, c, d) /\ UNCHANGED <<ops, settingVars>>
    \/ \E c \in Channels : CallGet(MainThread, c) /\ UNCHANGED <<ops, settingVars>>
    \/ Acquire(MainThread) /\ UNCHANGED <<ops, settingVars>>
    \/ Body(MainThread) /\ UNCHANGED <<ops, settingVars>>
    \/ Release(MainThread) /\ UNCHANGED <<ops, settingVars>>

SpecBusSeq == InitAll /\ [][NextBusSeq]_vars


\* Master_Slave.py alone
NextMS ==
    \/ \E p \in Projects, a \in AssetRoots, r \in ArchiveRoots, c \in Channels,
          k \in KwargsSet : MasterExecute(p, a, r, c, k) /\ UNCHANGED <<ops, settingVars>>
    \/ \E c \in Channels, m \in {"Channel", "Archive"}, f \in ArchivePaths :
          Distribute(c, m, f) /\ UNCHANGED <<ops, settingVars>>
    \/ Tick /\ UNCHANGED <<ops, settingVars>>

SpecMS == InitAll /\ [][NextMS]_vars

\* Master_Slave.py: the Master Controller alone
NextMaster ==
    \/ \E p \in Projects, a \in AssetRoots, r \in ArchiveRoots, c \in Channels,
          k \in KwargsSet : MasterExecute(p, a, r, c, k) /\ UNCHANGED <<ops, settingVars>>
    \/ Tick /\ UNCHANGED <<ops, settingVars>>

SpecMaster == InitAll /\ [][NextMaster]_vars

\* Master_Slave.py: the Master Controller with calls whose file system steps raise
NextMasterFail ==
    \/ \E p \in Projects, a \in AssetRoots, r \in ArchiveRoots, c \in Channels,
          k \in FailingKwargs : MasterExecute(p, a, r, c, k) /\ UNCHANGED <<ops, settingVars>>
    \/ \E p \in Projects, a \in AssetRoots, r \in ArchiveRoots, c \in Channels,
          k \in FailingKwargs, failing \in FailPoints :
          MasterFail(p, a, r, c, k, failing) /\ UNCHANGED <<ops, settingVars>>
    \/ Tick /\ UNCHANGED <<ops, settingVars>>

SpecMasterFail == InitAll /\ [][NextMasterFail]_vars

\* 01_Background_Setting_Node.py: the folder is edited and the schema is asked for
NextSetting ==
    \/ \E order_file \in {None} \cup {Some(l) : l \in OrderLists} : WriteOrder(order_file)
    \/ \E key \in EditedParams, folder \in Folders : WriteFolder(key, folder)
    \/ QuerySchema

SpecSetting == InitAll /\ [][NextSetting]_vars

\* Project_Master_Controller.py wired into channel.py
NextChan ==
    \/ \E p \in Projects, a \in AssetRoots, r \in ArchiveRoots, k \in KwargsSet :
          ControllerExecute(p, a, r, k) /\ UNCHANGED <<ops, settingVars>>
    \/ \E c \in Channels : merged_data # None /\ Transmit(merged_data[1], c) /\ UNCHANGED <<ops, settingVars>>
    \/ \E c \in Channels, d \in DirectRecords : Transmit(d, c) /\ UNCHANGED <<ops, settingVars>>
    \/ \E c \in Channels : Reception(c) /\ UNCHANGED <<ops, settingVars>>
    \/ Tick /\ UNCHANGED <<ops, settingVars>>

SpecChan == InitAll /\ [][NextChan]_vars

\* Sender_Node.py and Receiver_Node.py on one cache directory
NextFile ==
    \/ \E d \in SenderData, c \in SenderChannels : SenderExecute(d, c) /\ UNCHANGED <<ops, settingVars>>
    \/ \E c \in SenderChannels, f \in CategoryFilters :
          ReceiverExecute(c, f) /\ UNCHANGED <<ops, settingVars>>
    \/ \E c \in FileChannels, p \in ValidPayloads :
          CorruptCache(latest_file(c), p) /\ UNCHANGED <<ops, settingVars>>

SpecFile == InitAll /\ [][NextFile]_vars

\* Sender_Node.py and Receiver_Node.py on records with string keys and int keys
NextChecksum ==
    \/ \E d \in {Payload1, Payload1b, IntKeyed}, c \in FileChannels :
          SenderExecute(PyDict(d), PyStr(c)) /\ UNCHANGED <<ops, settingVars>>
    \/ \E c \in FileChannels, f \in {PyInt(0), PyInt(6)} :
          ReceiverExecute(PyStr(c), f) /\ UNCHANGED <<ops, settingVars>>
    \/ \E c \in FileChannels, p \in ValidPayloads :
          CorruptCache(latest_file(c), p) /\ UNCHANGED <<ops, settingVars>>

SpecChecksum == InitAll /\ [][NextChecksum]_vars

\* Sender_Node.py and Receiver_Node.py, with the steps of a save and of a load
\* apart
SaveData == {PyDict(Payload1), PyDict(Payload2)}
SaveChannels == {PyStr(<<"C", "H">>), PyStr(<<"A", "/", "B">>)}
NextSave ==
    \/ \E d \in SaveData, c \in SaveChannels : SaveBegin(d, c) /\ UNCHANGED <<ops, settingVars>>
    \/ SaveRotate /\ UNCHANGED <<ops, settingVars>>
    \/ SaveRename /\ UNCHANGED <<ops, settingVars>>
    \/ SaveOpen /\ UNCHANGED <<ops, settingVars>>
    \/ SaveWrite /\ UNCHANGED <<ops, settingVars>>
    \/ SaveFail /\ UNCHANGED <<ops, settingVars>>
    \/ \E c \in SaveChannels, f \in {PyInt(0), PyInt(6)} :
          LoadBegin(c, f) /\ UNCHANGED <<ops, settingVars>>
    \/ LoadOpen /\ UNCHANGED <<ops, settingVars>>
    \/ LoadRead /\ UNCHANGED <<ops, settingVars>>

SpecSave == InitAll /\ [][NextSave]_vars

\* the nodes of all three transports in one process, for a few executions
Count == ops < MaxOps /\ ops' = ops + 1 /\ UNCHANGED settingVars
Next ==
    \/ \E p \in Projects, a \in AssetRoots, r \in ArchiveRoots, c \in Channels,
          k \in KwargsSet : Count /\ MasterExecute(p, a, r, c, k)
    \/ \E c \in Channels, m \in {"Channel", "Archive"}, f \in ArchivePaths :
          Count /\ Distribute(c, m, f)
    \/ \E p \in Projects, a \in AssetRoots, r \in ArchiveRoots, k \in KwargsSet :
          Count /\ ControllerExecute(p, a, r, k)
    \/ \E c \in Channels : Count /\ merged_data # None /\ Transmit(merged_data[1], c)
    \/ \E c \in Channels, d \in DirectRecords : Count /\ Transmit(d, c)
    \/ \E c \in Channels : Count /\ Reception(c)
    \/ \E d \in SenderData, c \in SenderChannels : Count /\ SenderExecute(d, c)
    \/ \E c \in SenderChannels, f \in CategoryFilters : Count /\ ReceiverExecute(c, f)
    \/ \E c \in FileChannels, p \in ValidPayloads :
          Count /\ CorruptCache(latest_file(c), p)
    \/ Count /\ Tick

Spec == InitAll /\ [][Next]_vars

(***************************************************************************)
(* Properties of global_channels.py                                        *)
(***************************************************************************)
ValueOf(id) == IF id = 0 THEN None ELSE gh_val[id]

\* C1: with one caller, a get that has returned gave the argument of the most
\* recent set on its channel, None exactly when the channel was never set, and
\* no step of a get changes the mapping.
C1_GetReturnsLastSet ==
    /\ [](\A t \in Threads :
            (thr[t].pc = "returned" /\ thr[t].op = "get") =>
                /\ thr[t].ret = gh_last[thr[t].channel_name]
                /\ (thr[t].ret = None <=> gh_last[thr[t].channel_name] = None))
    /\ [][(\E t \in Threads : thr'[t] # thr[t] /\ thr'[t].op = "get")
            => GLOBAL_CHANNEL_DATA' = GLOBAL_CHANNEL_DATA]_vars

C1_Witness ==
    \E t \in Threads :
        /\ thr[t].pc = "returned" /\ thr[t].op = "get"
        /\ thr[t].ret # None
        /\ Len(GLOBAL_CHANNEL_DATA) = 2
        /\ calls >= 3

\* C2: under any interleaving, a get that has returned gave the value of a set on
\* its channel that was not overwritten by a set that returned before the get
\* started (or of a set overlapping the get); None only if no set on the channel
\* had returned when the get started.
C2_LastWriteWinsConcurrent ==
    \A t \in Threads :
        (thr[t].pc = "returned" /\ thr[t].op = "get") =>
            \E id \in thr[t].cand : thr[t].ret = ValueOf(id)

C2_Witness ==
    \E t, u \in Threads :
        /\ t # u
        /\ thr[t].pc = "returned" /\ thr[t].op = "get" /\ thr[t].ret # None
        /\ Cardinality(thr[t].cand) >= 2
        /\ thr[u].op = "set" /\ thr[u].channel_name = thr[t].channel_name

(***************************************************************************)
(* Properties of Master_Slave.py                                           *)
(***************************************************************************)
\* the record the decomposition owes for one category key: the category's settings
\* merged over the project info, whose root is extended by the key
CategoryRecordOf(data, key) ==
    LET info == DictGet(data, "project_info", <<>>)
        rooted == IF DictHas(info, "root")
                  THEN DictSet(info, "root", join(DictGet(info, "root", ""), key))
                  ELSE info
    IN DictUpdate(rooted, DictGet(DictGet(data, "settings", <<>>), key, <<>>))

\* C3: every distribute call returns, without raising, six records, the i-th being
\* the record of the i-th key of the fixed category order (six empty records when
\* there is no data).
C3_SixOutputsInOrder ==
    slave_out.called =>
        /\ slave_out.exc = ""
        /\ Len(slave_out.out) = 6
        /\ ~Falsy(slave_out.data) =>
               \A i \in 1..6 :
                   slave_out.out[i] = CategoryRecordOf(slave_out.data[1], CATEGORIES[i])

\* the category records supplied to the publish: None for an absent category
Supplied(kwargs, key) == DictGet(kwargs, key, None)

\* C4: a distribute call that reads what the Master Controller published on its
\* channel returns, for each category key, exactly the record that was supplied
\* and an empty record for a key that was not supplied.
C4_DecomposeInvertsAggregate ==
    (/\ slave_out.called
     /\ gh_pub[slave_out.CHANNEL] # None
     /\ slave_out.data = DictGetOpt(INTERNAL_PROJECT_BUS, slave_out.CHANNEL)) =>
        /\ slave_out.exc = ""
        /\ Len(slave_out.out) = 6
        /\ \A i \in 1..6 :
              slave_out.out[i] =
                  IF Supplied(gh_pub[slave_out.CHANNEL][1], CATEGORIES[i]) = None
                  THEN <<>>
                  ELSE Supplied(gh_pub[slave_out.CHANNEL][1], CATEGORIES[i])[1]

\* C6: after N completed Master Controller invocations archiving_list.txt holds N
\* lines and archive_dictionary/ holds N files.
C6_ArchiveMonotonic ==
    /\ Len(ArchiveLines(ARCHIVE_ROOT)) = runs
    /\ Cardinality(ArchiveFiles(ARCHIVE_ROOT)) = runs

(***************************************************************************)
(* Properties of the receivers on a channel nothing was published on       *)
(***************************************************************************)
SixEmpty == <<<<>>, <<>>, <<>>, <<>>, <<>>, <<>>>>

\* the Slave of Master_Slave.py on a channel without a publish and without an
\* archive file to read
C5_SlaveNeverSet ==
    (/\ slave_out.called
     /\ gh_pub[slave_out.CHANNEL] = None
     /\ ~(slave_out.reference_mode = "Archive" /\ slave_out.file_there)) =>
        slave_out.exc = "" /\ slave_out.out = SixEmpty

\* the ReceiverNode of channel.py on a channel without a transmission
C5_ReceptionNeverSet ==
    (recv_out.called /\ recv_out.CHANNEL \notin gh_tx) =>
        /\ recv_out.cats = SixEmpty
        /\ recv_out.PROJECT_INFO = <<>>
        /\ recv_out.PROJECT_NAME = "NONE"

\* the ReceiverNode of Receiver_Node.py on a channel name no send was given
C5_ReceiverNeverSet ==
    (node_out.node = "Receiver" /\ node_out.CHANNEL \notin gh_names) =>
        /\ node_out.STATUS = "FAILED"
        /\ node_out.PROJECT_INFO = <<>>
        /\ Len(node_out.sockets) = 6
        /\ \A i \in 1..6 : node_out.sockets[i][2] = <<>>

\* C5: a Receiver or Slave run on a channel name on which nothing was ever
\* published (and with no archive file to read) raises nothing and returns an
\* empty record for each of the six categories, with status FAILED or NONE where
\* a status is returned.
C5_NeverSetChannel == C5_SlaveNeverSet /\ C5_ReceptionNeverSet /\ C5_ReceiverNeverSet

(***************************************************************************)
(* Properties of Sender_Node.py and Receiver_Node.py                       *)
(***************************************************************************)
\* two dicts hold the same items, whatever the order they were inserted in
SameFlat(a, b) == {a[i] : i \in DOMAIN a} = {b[i] : i \in DOMAIN b}
SameNested(a, b) ==
    /\ {a[i][1] : i \in DOMAIN a} = {b[i][1] : i \in DOMAIN b}
    /\ \A i \in DOMAIN a : SameFlat(a[i][2], DictGet(b, a[i][1], <<>>))
SameMaster(a, b) ==
    /\ {a[i][1] : i \in DOMAIN a} = {b[i][1] : i \in DOMAIN b}
    /\ \A i \in DOMAIN a :
          IF a[i][1] = "project_info" THEN SameFlat(a[i][2], DictGet(b, a[i][1], <<>>))
          ELSE SameNested(a[i][2], DictGet(b, a[i][1], <<>>))

ValidReceiverInputs(out) ==
    /\ out.CHANNEL.type = "str" /\ out.CHANNEL.v \in FileChannels
    /\ out.CATEGORY_FILTER.type = "int"
    /\ out.CATEGORY_FILTER.v \in 0..6

\* a step that is a Receiver execution with a usable channel name and filter
ReceiverStep ==
    /\ sent' = sent + 1
    /\ node_out'.node = "Receiver"
    /\ ValidReceiverInputs(node_out')

\* the payloads the checksum is looked at with: those with string keys, the one
\* with int keys, and that one as it is read back from a file
ChecksumPayloads == ValidPayloads \cup {IntKeyed, JsonMaster(IntKeyed)}

\* C7: the checksum the Sender stored for a payload P verifies a payload P' exactly
\* when P' holds the same items as P (their key-sorted serializations agree), and
\* a Receiver that reads an envelope as the Sender wrote it returns SUCCESS.
C7_ChecksumRoundTrip ==
    /\ \A f \in CacheFiles :
          (cache[f] # None /\ gh_sent[f] # None) =>
              \A p \in ChecksumPayloads :
                  _verify_checksum(p, cache[f][1].metadata.checksum)
                      <=> SameMaster(p, gh_sent[f][1])
    /\ (node_out.node = "Receiver" /\ node_out.intact /\ ValidReceiverInputs(node_out)) =>
          node_out.STATUS = "SUCCESS"

\* the same for the records all of whose keys are strings, which json.dump
\* writes and json.load reads back as they are
C7_RoundTripStringKeys ==
    [][(/\ ReceiverStep
        /\ node_out'.intact
        /\ JsonMaster(gh_sent[latest_file(node_out'.CHANNEL.v)][1])
              = gh_sent[latest_file(node_out'.CHANNEL.v)][1]) =>
          node_out'.STATUS = "SUCCESS"]_vars

\* C8: when the envelope read for a channel carries a checksum that differs from
\* the hash recomputed over its payload, the Receiver returns what it returns for
\* an absent channel: STATUS FAILED, an empty PROJECT_INFO and an empty record on
\* each of the six category sockets, so that no part of the payload is exposed.
C8_MismatchIsNoData ==
    (/\ node_out.node = "Receiver"
     /\ node_out.read # None
     /\ node_out.read[1].payload # None
     /\ node_out.read[1].metadata.checksum
            # sha256(dumps_sort_keys(node_out.read[1].payload[1]))) =>
        /\ node_out.STATUS = "FAILED"
        /\ node_out.PROJECT_INFO = <<>>
        /\ Len(node_out.sockets) = 6
        /\ \A i \in 1..6 : node_out.sockets[i][2] = <<>>

C8_Witness ==
    /\ node_out.node = "Receiver"
    /\ node_out.read # None
    /\ node_out.read[1].payload = Some(Payload1)
    /\ node_out.read[1].metadata.checksum # sha256(dumps_sort_keys(Payload1))
    /\ node_out.STATUS = "FAILED"

\* C9: a Sender execution whose inputs validate_inputs rejects returns FAILED with
\* a message and an empty CHECKSUM and leaves every cache file as it was.
C9_RejectedSendPublishesNothing ==
    [][(/\ sent' = sent + 1
        /\ node_out'.node = "Sender"
        /\ ~Sender_validate_inputs(node_out'.MASTER_DATA, node_out'.CHANNEL)[1]) =>
            /\ cache' = cache
            /\ node_out'.STATUS = "FAILED"
            /\ node_out'.MESSAGE # ""
            /\ node_out'.CHECKSUM = NoChecksum]_vars

C9_Witness ==
    /\ node_out.node = "Sender"
    /\ node_out.STATUS = "FAILED"
    /\ node_out.MASTER_DATA = PyDict(MasterBuilt)
    /\ node_out.CHANNEL = PyStr(<<"C", "H">>)
    /\ cache[latest_file(<<"C", "H">>)] # None

\* a record as the Master Controller builds it and a usable channel name
WellFormed(master_data, channel) ==
    /\ master_data.type = "dict"
    /\ DictHas(master_data.v, "project_info")
    /\ DictHas(master_data.v, "settings")
    /\ channel.type = "str"
    /\ \E i \in DOMAIN channel.v : channel.v[i] \notin {" ", "\t", "\n"}
    /\ MasterJsonLen(master_data.v) <= max_payload_size

\* C10: validate_inputs accepts exactly the records that are mappings with the
\* keys project_info and settings, given with a non-blank channel name and within
\* the size limit; so it accepts what the Master Controller builds.
C10_ValidationAcceptsWellFormed ==
    node_out.node = "Sender" =>
        (Sender_validate_inputs(node_out.MASTER_DATA, node_out.CHANNEL)[1]
            <=> WellFormed(node_out.MASTER_DATA, node_out.CHANNEL))

(***************************************************************************)
(* Properties of the lock                                                  *)
(***************************************************************************)
\* a step that writes one of the channel-to-record mappings
WritesMapping ==
    \/ GLOBAL_CHANNEL_DATA' # GLOBAL_CHANNEL_DATA
    \/ INTERNAL_PROJECT_BUS' # INTERNAL_PROJECT_BUS \/ gh_pub' # gh_pub
    \/ INTERNAL_STORAGE' # INTERNAL_STORAGE \/ gh_tx' # gh_tx
\* a step in which the Slave or the Receiver looks a channel up in its mapping
ReadsMapping ==
    \/ slave_out' # slave_out /\ ~(slave_out'.reference_mode = "Archive" /\ slave_out'.file_there)
    \/ recv_out' # recv_out

\* the accesses of global_channels.py are made by the thread that holds the lock
C11_BusLocked ==
    [][\A t \in Threads :
          (thr[t].pc # "body_done" /\ thr'[t].pc = "body_done") => GLOBAL_CHANNEL_LOCK = t]_vars

\* C11: every write and every read of the mapping the Master Controller and the
\* Sender publish to and the Slave and the Receiver read from is made while the
\* bus lock is held.
C11_LockDiscipline ==
    [][WritesMapping \/ ReadsMapping => GLOBAL_CHANNEL_LOCK # NoThread]_vars

(***************************************************************************)
(* Properties of the Master Controller's publish                           *)
(***************************************************************************)
\* the keys of a dict, as a set
KeySet(d) == {d[i][1] : i \in DOMAIN d}
\* what the bus owes after a publish of the given inputs on CHANNEL
Published(bus_before, bus_after, project_name, asset_save_root, CHANNEL, kwargs) ==
    LET record == DictGet(bus_after, CHANNEL, <<>>)
        info == DictGet(record, "project_info", <<>>)
        settings == DictGet(record, "settings", <<>>)
    IN /\ KeySet(bus_after) = KeySet(bus_before) \cup {CHANNEL}
       /\ KeySet(record) = {"project_info", "settings"}
       /\ KeySet(info) = {"name", "root", "timestamp"}
       /\ DictGet(info, "name", "") = project_name
       /\ DictGet(info, "root", "") = abspath(asset_save_root) \o "/" \o project_name
       /\ DictGet(info, "timestamp", "") = strftime(now)
       /\ KeySet(settings) \subseteq {CATEGORIES[i] : i \in DOMAIN CATEGORIES}
       /\ \A i \in DOMAIN CATEGORIES :
             IF Supplied(kwargs, CATEGORIES[i]) = None
             THEN ~DictHas(settings, CATEGORIES[i])
             ELSE DictGetOpt(settings, CATEGORIES[i]) = Supplied(kwargs, CATEGORIES[i])
       /\ \A other \in Channels \ {CHANNEL} :
             DictGetOpt(bus_after, other) = DictGetOpt(bus_before, other)

\* C12: when execute_management returns, the bus holds under CHANNEL the record
\* {project_info: {name, root: asset root/project name, timestamp}, settings: S}
\* with an entry in S for each supplied category and none for an absent one, in
\* place of what CHANNEL held, and the other channels hold what they held.
C12_MasterPublish ==
    [][(runs' = runs + 1 /\ master_out'.exc = "") =>
          \A p \in Projects, a \in AssetRoots, r \in ArchiveRoots, k \in KwargsSet :
              MasterExecute(p, a, r, master_out'.CHANNEL, k) =>
                  Published(INTERNAL_PROJECT_BUS, INTERNAL_PROJECT_BUS', p, a,
                            master_out'.CHANNEL, k)]_vars

C12_Witness ==
    /\ runs = 2
    /\ KeySet(INTERNAL_PROJECT_BUS) = {"MASTER_CH"}
    /\ gh_pub["MASTER_CH"] = Some(<< <<"03_Character", None>>, <<"02_Equipment", Some(<<>>)>> >>)
    /\ KeySet(DictGet(DictGet(INTERNAL_PROJECT_BUS, "MASTER_CH", <<>>), "settings", <<>>))
          = {"02_Equipment"}

(***************************************************************************)
(* Properties of the cache files of a channel                              *)
(***************************************************************************)
\* the file holds the envelope of the record, sent under the channel name
IsEnvelopeOf(file, channel, record) ==
    /\ cache[file] # None
    /\ cache[file][1].payload = Some(record)
    /\ cache[file][1].metadata.channel = channel

\* the latest and the backup file of a channel follow the records sent under it
Rotated(channel) ==
    LET sends == gh_hist[channel].sends
        k == Len(sends)
    IN /\ k = 1 => /\ IsEnvelopeOf(latest_file(channel), channel, sends[1])
                   /\ cache[backup_file(channel)] = None
       /\ k >= 2 => /\ IsEnvelopeOf(latest_file(channel), channel, sends[k])
                    /\ IsEnvelopeOf(backup_file(channel), channel, sends[k - 1])

\* the channel names that share the cache files of a channel
Aliases(channel) == {c \in FileChannels \ {channel} : latest_file(c) = latest_file(channel)}

\* rotation for a channel none of whose aliases was sent on
C13_RotationUnaliased ==
    \A c \in FileChannels :
        (~gh_hist[c].other /\ \A d \in Aliases(c) : gh_hist[d].sends = <<>>) => Rotated(c)

\* C13: for every channel, when nothing but the Sender wrote its files, after one
\* successful send under its name the latest file holds the envelope of that
\* record and there is no backup; after two or more the latest file holds the
\* envelope of the last record and the backup that of the one before.
C13_CacheRotation == \A c \in FileChannels : ~gh_hist[c].other => Rotated(c)

\* C17: what a Receiver reads on a channel is the payload of the most recent
\* successful send whose channel name was exactly that one, and nothing when no
\* send had that name; a send under another name changes nothing of it.
C17_ChannelIsolation ==
    [][(ReceiverStep /\ ~gh_hist[node_out'.CHANNEL.v].other) =>
          LET sends == gh_hist[node_out'.CHANNEL.v].sends
          IN IF sends = <<>>
             THEN node_out'.read = None /\ node_out'.STATUS = "FAILED"
             ELSE /\ node_out'.read # None
                  /\ node_out'.read[1].payload = Some(sends[Len(sends)])]_vars

\* the same for the channels none of whose aliases was sent on
C17_IsolationUnaliased ==
    [][(/\ ReceiverStep
        /\ ~gh_hist[node_out'.CHANNEL.v].other
        /\ \A d \in Aliases(node_out'.CHANNEL.v) : gh_hist[d].sends = <<>>) =>
          LET sends == gh_hist[node_out'.CHANNEL.v].sends
          IN IF sends = <<>>
             THEN node_out'.read = None /\ node_out'.STATUS = "FAILED"
             ELSE /\ node_out'.read # None
                  /\ node_out'.read[1].payload = Some(sends[Len(sends)])]_vars

(***************************************************************************)
(* Properties of the Slave's archive mode                                  *)
(***************************************************************************)
\* a step that is a distribute call in archive mode
ArchiveCall == slave_out' # slave_out /\ slave_out'.called /\ slave_out'.reference_mode = "Archive"
\* the archive file of the call is there and is JSON
ArchiveReadable(call) == call.file_there /\ call.archive_file_path[2] # "archiving_list.txt"
\* the six records owed for a record: none of them when there is no record
SixRecordsOf(data) ==
    IF Falsy(data) THEN SixEmpty
    ELSE [i \in 1..6 |-> CategoryRecordOf(data[1], CATEGORIES[i])]

\* archive mode works on the file's record when the file is readable and on the
\* bus entry of CHANNEL otherwise, and then ends as a "Channel" call ends
C14_SameAsChannelCall ==
    [][ArchiveCall =>
          /\ slave_out'.data =
                IF ArchiveReadable(slave_out')
                THEN DictGetOpt(files, absfile(slave_out'.archive_file_path))
                ELSE DictGetOpt(INTERNAL_PROJECT_BUS, slave_out'.CHANNEL)
          /\ ~ArchiveReadable(slave_out') =>
                LET channel_call == distribute(slave_out'.CHANNEL, "Channel",
                                               slave_out'.archive_file_path)
                IN slave_out'.out = channel_call.out /\ slave_out'.exc = channel_call.exc]_vars

\* C14: in archive mode distribute decomposes the record of the archive file when
\* the file is there and parses, whatever the bus holds; when the file is missing
\* or does not parse, no exception reaches the caller and the result is that of
\* the bus entry of CHANNEL.
C14_ArchiveFallback ==
    [][ArchiveCall =>
          /\ slave_out'.exc = ""
          /\ slave_out'.out =
                IF ArchiveReadable(slave_out')
                THEN SixRecordsOf(DictGetOpt(files, absfile(slave_out'.archive_file_path)))
                ELSE SixRecordsOf(DictGetOpt(INTERNAL_PROJECT_BUS, slave_out'.CHANNEL))]_vars

(***************************************************************************)
(* Properties of the schema of the setting node                            *)
(***************************************************************************)
\* the parameters order_list.txt lists
Listed(dir) == {ui_keys(dir.order_file)[i] : i \in DOMAIN ui_keys(dir.order_file)}
\* a config.json that is there and is not of the shape {"<param>": {...}}
Malformed(config) == config \in MalformedConfigs
\* the folder with every malformed config.json replaced by a well-formed one
Repairs(dir) ==
    LET broken == {k \in ParamNames : Malformed(dir.folders[k].config)}
    IN {[dir EXCEPT !.folders = [k \in ParamNames |->
                        IF k \in broken THEN [dir.folders[k] EXCEPT !.config = fix[k]]
                        ELSE dir.folders[k]]] :
            fix \in [broken -> WellFormedConfigs]}

\* C15: the schema INPUT_TYPES returns has an input for mode and for every listed
\* parameter and for nothing else, maps each listed parameter whose config.json is
\* malformed to the one option "config_error", and gives every other parameter
\* the input it gets when the malformed configs are replaced by well-formed ones.
C15_SchemaDegradation ==
    schema # None =>
        LET dir == schema[1].dir
            required == schema[1].required
        IN /\ KeySet(required) = Listed(dir) \cup {"mode"}
           /\ "mode" \notin Listed(dir) => DictGetOpt(required, "mode") = Some(ModeInput)
           /\ \A key \in Listed(dir) :
                 Malformed(dir.folders[key].config) =>
                     DictGetOpt(required, key) = Some(<< <<"config_error">> >>)
           /\ \A repaired \in Repairs(dir) :
                 \A key \in Listed(dir) :
                     ~Malformed(dir.folders[key].config) =>
                         DictGetOpt(required, key) = DictGetOpt(INPUT_TYPES(repaired), key)

C15_Witness ==
    /\ schema # None
    /\ ui_keys(schema[1].dir.order_file) = <<"ckpt", "prompt", "ratio">>
    /\ schema[1].dir.folders["ckpt"].config = Unparsable
    /\ DictGetOpt(schema[1].required, "ckpt") = Some(<< <<"config_error">> >>)
    /\ DictGetOpt(schema[1].required, "prompt") = Some(<<"STRING", << <<"default", "score_9">> >> >>)
    /\ DictGetOpt(schema[1].required, "ratio") = Some(<<"STRING", << <<"default", "16:9">> >> >>)

\* C16: once a send on a channel has returned SUCCESS, a Receiver run on that
\* channel finds an envelope and does not report that the channel has no data,
\* also while a later send on the channel is in progress or after one failed.
C16_PublishedNeverAbsent ==
    [][(ReceiverStep /\ node_out'.CHANNEL \in gh_names) =>
          /\ node_out'.read # None
          /\ node_out'.MESSAGE # "channel has no data"]_vars

(***************************************************************************)
(* Properties of a Master Controller call that fails                       *)
(***************************************************************************)
\* a step that is an execute_management call one of whose file system steps raised
FailedCall == runs' = runs + 1 /\ master_out'.failed # ""

\* every record on the bus has its archive file
BusRecordsArchived ==
    \A i \in DOMAIN INTERNAL_PROJECT_BUS :
        LET info == DictGet(INTERNAL_PROJECT_BUS[i][2], "project_info", <<>>)
        IN \E r \in ArchiveRoots :
              DictHas(files, FilePath(arch_dir(r),
                                      file_name(DictGet(info, "timestamp", ""),
                                                DictGet(info, "name", ""))))

\* a record is put on the bus only in a step that leaves its archive file
\* holding that record
PublishedWithArchive ==
    \A c \in Channels :
        (DictHas(INTERNAL_PROJECT_BUS', c)
            /\ DictGetOpt(INTERNAL_PROJECT_BUS', c) # DictGetOpt(INTERNAL_PROJECT_BUS, c)) =>
           LET record == DictGet(INTERNAL_PROJECT_BUS', c, <<>>)
               info == DictGet(record, "project_info", <<>>)
           IN \E r \in ArchiveRoots :
                 DictGetOpt(files', FilePath(arch_dir(r),
                                             file_name(DictGet(info, "timestamp", ""),
                                                       DictGet(info, "name", ""))))
                     = Some(record)

\* C18: the steps of execute_management come in the order directory creation,
\* index-line append, archive-file write, bus publish: when a file system step
\* fails, the exception reaches the caller, the steps after the failing one are
\* not done, those before it are, and the bus holds for every channel what it
\* held before the call; so every record on the bus had its archive file written
\* when it was published, and that file is there.
C18_FailureLeavesBus ==
    /\ [][FailedCall =>
             LET n == StepIndex(master_out'.failed)
             IN /\ master_out'.exc # ""
                /\ INTERNAL_PROJECT_BUS' = INTERNAL_PROJECT_BUS
                /\ n <= 2 => \A r \in ArchiveRoots : arch_dir(r) \in dirs' => arch_dir(r) \in dirs
                /\ n <= 3 => files' = files
                /\ n <= 5 => \A r \in ArchiveRoots : ArchiveFiles(r)' = ArchiveFiles(r)
                /\ n >= 3 => \E r \in ArchiveRoots : arch_dir(r) \in dirs'
                /\ n >= 5 => \E r \in ArchiveRoots : ArchiveLines(r)' # ArchiveLines(r)]_vars
    /\ [][PublishedWithArchive]_vars
    /\ []BusRecordsArchived

C18_Witness ==
    /\ runs = 2
    /\ master_out.failed = "write"
    /\ master_out.exc = "OSError"
    /\ master_out.CHANNEL = "MASTER_CH"
    /\ DictHas(INTERNAL_PROJECT_BUS, "MASTER_CH")
    /\ Len(ArchiveLines(ARCHIVE_ROOT)) = 2

(***************************************************************************)
(* Properties of the ProjectInfo output                                    *)
(***************************************************************************)
InfoFields == {"name", "root", "timestamp"}
SameInfo(out, published) == \A k \in InfoFields : DictGetOpt(out, k) = DictGetOpt(published, k)

\* C19: whenever the Receiver obtains the record a Sender published on a channel,
\* the ProjectInfo output it returns has the name, the root and the timestamp of
\* the project_info of that record, on the first read and on every later one.
C19_ProjectInfoUnchanged ==
    [][(ReceiverStep /\ node_out'.intact /\ node_out'.STATUS = "SUCCESS") =>
          SameInfo(node_out'.PROJECT_INFO,
                   DictGet(node_out'.read[1].payload[1], "project_info", <<>>))]_vars

\* the same for the Receiver of channel.py, which hands out the stored
\* project_info itself
C19_ReceptionUnchanged ==
    (recv_out.called /\ ~Falsy(recv_out.data)) =>
        /\ recv_out.PROJECT_INFO = DictGet(recv_out.data[1], "project_info", <<>>)
        /\ SameInfo(recv_out.PROJECT_INFO, DictGet(recv_out.data[1], "project_info", <<>>))
====
